---- MODULE Spec2Model ----
(***************************************************************************)
(* Model of the NovelMind editor experiment scripts:                       *)
(*   map_icons_to_lucide.py      (Icon Mapper)                             *)
(*   copy_lucide_icons.py        (Icon Copier)                             *)
(*   generate_qrc.py             (Resource Manifest Generator)             *)
(*   generate_icon_mapping_cpp.py (Source-Table Generator)                 *)
(*   generate_assets.py          (Placeholder Asset Generator)             *)
(*                                                                         *)
(* Python str values that the code inspects character by character (icon   *)
(* names, file names, category labels) are sequences of one-character      *)
(* strings.  A line of emitted text is a sequence of parts; a part is      *)
(* either literal text of the f-string or an interpolated name.            *)
(***************************************************************************)
EXTENDS Integers, Sequences, FiniteSets, TLC

VARIABLES
  ICON_MAPPING,   \* the mapper's table, in definition order: <<key, value>> pairs
  lucideSrc,      \* /tmp/lucide-icons/icons : name of each entry -> the entry
  lucideOrder,    \* the names of lucideSrc in the order os.listdir gives them
  mappingFile,    \* /tmp/icon-mapping.json  : [exists, text]
  targetDir,      \* editor/resources/icons/lucide : [exists, entries]
  oldIcons,       \* editor/resources/icons  : name of each entry -> the entry
  mapperRun,      \* result of the last run of map_icons_to_lucide.py
  copierRun,      \* result of the last run of copy_lucide_icons.py
  prevCopier,     \* copierRun of the run before the last one
  prevTarget,     \* targetDir as the run before the last one left it
  qrcRun,         \* result of the last run of generate_qrc.py
  cppRun,         \* result of the last run of generate_icon_mapping_cpp.py
  duration_ms,    \* argument of a direct call of create_silent_wav
  assetFiles,     \* files under BASE_PATH : path -> content
  stdout,         \* lines printed by generate_assets.py
  audioPc,        \* position inside create_placeholder_audio
  imageFiles,     \* files svg_to_png wrote : path -> content
  returns,        \* the calls of svg_to_png so far: path, outcome, return value
  genPc,          \* image steps of __main__ of generate_assets.py done so far
  svgCall         \* a direct call of create_character_svg: arguments, result

vars == <<ICON_MAPPING, lucideSrc, lucideOrder, mappingFile, targetDir, oldIcons, mapperRun,
          copierRun, prevCopier, prevTarget, qrcRun, cppRun,
          duration_ms, assetFiles, stdout, audioPc, imageFiles, returns, genPc,
          svgCall>>

iconVars  == <<ICON_MAPPING, lucideSrc, lucideOrder, mappingFile, targetDir, oldIcons,
               mapperRun, copierRun, prevCopier, prevTarget, qrcRun, cppRun>>
imageVars == <<imageFiles, returns, genPc, svgCall>>
audioVars == <<duration_ms, assetFiles, stdout, audioPc, imageFiles, returns,
               genPc, svgCall>>

----------------------------------------------------------------------------
(* Bounds of the model. *)

\* number of entries of TableExcerpt a table or mapping file may draw from
MaxEntries == 4

----------------------------------------------------------------------------
(* Python str: comparison, prefix and suffix tests. *)

\* the characters that occur in the model, in code-point order
CharOrder ==
  <<" ", "-", ".", "A", "C", "D", "E", "F", "I", "L", "M", "N", "O", "P", "R",
    "S", "T", "U", "V", "W", "Z", "a", "b", "c", "d", "e", "f", "g", "h", "i",
    "j", "k", "l", "m", "n", "o", "p", "q", "r", "s", "t", "u", "v", "w", "x",
    "y", "z">>

\* ord(c), up to an order-preserving renumbering
Ord(c) == CHOOSE i \in 1..Len(CharOrder) : CharOrder[i] = c

Min(a, b) == IF a < b THEN a ELSE b

\* s < t for str: code-point lexicographic order
RECURSIVE StrLess(_, _)
StrLess(s, t) ==
  IF t = <<>> THEN FALSE
  ELSE IF s = <<>> THEN TRUE
  ELSE IF Ord(Head(s)) < Ord(Head(t)) THEN TRUE
  ELSE IF Ord(Head(s)) > Ord(Head(t)) THEN FALSE
  ELSE StrLess(Tail(s), Tail(t))

\* s.startswith(p)
StartsWith(s, p) == Len(p) <= Len(s) /\ SubSeq(s, 1, Len(p)) = p

\* s.endswith(p)
EndsWith(s, p) ==
  Len(p) <= Len(s) /\ SubSeq(s, Len(s) - Len(p) + 1, Len(s)) = p

\* sub in s
Contains(s, sub) ==
  \E i \in 0..(Len(s) - Len(sub)) : SubSeq(s, i + 1, i + Len(sub)) = sub

\* s.replace(old, new) for a non-empty old: the occurrences from the left,
\* not overlapping
RECURSIVE Replace(_, _, _)
Replace(s, old, new) ==
  IF s = <<>> THEN <<>>
  ELSE IF StartsWith(s, old)
       THEN new \o Replace(SubSeq(s, Len(old) + 1, Len(s)), old, new)
       ELSE <<Head(s)>> \o Replace(Tail(s), old, new)

\* s.split(sep)[0] for a one-character sep
RECURSIVE SplitFirst(_, _)
SplitFirst(s, sep) ==
  IF s = <<>> \/ Head(s) = sep THEN <<>>
  ELSE <<Head(s)>> \o SplitFirst(Tail(s), sep)

\* sorted(S) for a collection S of distinct str
RECURSIVE Sorted(_)
Sorted(S) ==
  IF S = {} THEN <<>>
  ELSE LET m == CHOOSE x \in S : \A y \in S : x = y \/ StrLess(x, y)
       IN  <<m>> \o Sorted(S \ {m})

Range(s) == {s[i] : i \in 1..Len(s)}

DotSvg == <<".","s","v","g">>

\* f'{name}.svg'
SvgName(name) == name \o DotSvg

(* A directory is a function from the names of its entries to the entries.  *)
(* An entry is a regular file with its content, or a child directory; of a  *)
(* child directory the model keeps the content of the one file a copy can   *)
(* put inside it (<<>> when there is none).                                *)
File(data)   == [kind |-> "file", data |-> data]
SubDir(data) == [kind |-> "dir",  data |-> data]

\* dir with the entry name set to e
WithEntry(dir, name, e) ==
  [n \in DOMAIN dir \cup {name} |-> IF n = name THEN e ELSE dir[n]]

\* parts of a line of text
Lit(s) == [lit |-> s, name |-> <<>>]
Nm(n)  == [lit |-> "", name |-> n]

----------------------------------------------------------------------------
(* Dictionaries: a dict is a sequence of <<key, value>> pairs with distinct *)
(* keys, in insertion order.                                               *)

Keys(d)   == {d[i][1] : i \in 1..Len(d)}
Values(d) == {d[i][2] : i \in 1..Len(d)}
Lookup(d, k) == (CHOOSE i \in 1..Len(d) : d[i][1] = k)

\* d[k]
Get(d, k) == d[Lookup(d, k)][2]

\* d[k] = v
Put(d, k, v) ==
  IF k \in Keys(d) THEN [d EXCEPT ![Lookup(d, k)] = <<k, v>>]
  ELSE Append(d, <<k, v>>)

----------------------------------------------------------------------------
(* map_icons_to_lucide.py *)

\* entries of ICON_MAPPING, in the order of the table (lines 15, 16, 24, 27,
\* 175, 182); the model's tables are sub-tables of this excerpt
TableExcerpt ==
  << <<<<"f","i","l","e","-","n","e","w">>,    <<"f","i","l","e","-","p","l","u","s">>>>,
     <<<<"f","i","l","e","-","o","p","e","n">>,   <<"f","o","l","d","e","r","-","o","p","e","n">>>>,
     <<<<"e","d","i","t","-","c","o","p","y">>,   <<"c","o","p","y">>>>,
     <<<<"c","o","p","y">>,        <<"c","o","p","y">>>>,
     <<<<"f","o","l","d","e","r","-","o","p","e","n">>, <<"f","o","l","d","e","r","-","o","p","e","n">>>>,
     <<<<"w","e","l","c","o","m","e","-","n","e","w">>, <<"f","i","l","e","-","p","l","u","s">>>> >>

\* os.path.exists(os.path.join(dir, name)): true of files and of directories
PathExists(dir, name) == name \in DOMAIN dir

\* os.path.isfile / os.path.isdir
IsFile(dir, name) == name \in DOMAIN dir /\ dir[name].kind = "file"
IsDir(dir, name)  == name \in DOMAIN dir /\ dir[name].kind = "dir"

\* CheckLoop testing <current_name>.svg instead of <lucide_name>.svg
RECURSIVE CheckLoopByKey(_, _, _, _)
CheckLoopByKey(items, dir, found, missing) ==
  IF items = <<>> THEN [found |-> found, missing |-> missing]
  ELSE LET current_name == Head(items)[1]
           lucide_name  == Head(items)[2]
       IN  IF PathExists(dir, SvgName(current_name))
           THEN CheckLoopByKey(Tail(items), dir,
                          Append(found, <<current_name, lucide_name>>), missing)
           ELSE CheckLoopByKey(Tail(items), dir, found,
                          Append(missing, <<current_name, lucide_name>>))

\* check_icons_exist(): one pass over ICON_MAPPING.items()
RECURSIVE CheckLoop(_, _, _, _)
CheckLoop(items, dir, found, missing) ==
  IF items = <<>> THEN [found |-> found, missing |-> missing]
  ELSE LET current_name == Head(items)[1]
           lucide_name  == Head(items)[2]
       IN  IF PathExists(dir, SvgName(lucide_name))
           THEN CheckLoop(Tail(items), dir,
                          Append(found, <<current_name, lucide_name>>), missing)
           ELSE CheckLoop(Tail(items), dir, found,
                          Append(missing, <<current_name, lucide_name>>))

check_icons_exist(table, dir) == CheckLoop(table, dir, <<>>, <<>>)

\* json.dump(d, f, indent=2) for a dict of str to str
JsonDump(d) ==
  IF d = <<>> THEN << <<Lit("{}")>> >>
  ELSE << <<Lit("{")>> >>
       \o [i \in 1..Len(d) |->
             <<Lit("  \""), Nm(d[i][1]), Lit("\": \""), Nm(d[i][2]),
               Lit(IF i < Len(d) THEN "\"," ELSE "\"")>>]
       \o << <<Lit("}")>> >>

\* json.load(f): the members of the object, a repeated key keeps its first
\* position and takes its last value
RECURSIVE JsonMembers(_, _)
JsonMembers(text, d) ==
  IF text = <<>> THEN d
  ELSE LET line == Head(text)
       IN  IF Len(line) = 5
           THEN JsonMembers(Tail(text), Put(d, line[2].name, line[4].name))
           ELSE JsonMembers(Tail(text), d)

JsonLoad(text) == JsonMembers(text, <<>>)

\* [f.replace('.svg', '') for f in os.listdir(path) if f.endswith('.svg')]
RECURSIVE AllLucideIcons(_)
AllLucideIcons(listing) ==
  IF listing = <<>> THEN <<>>
  ELSE (IF EndsWith(Head(listing), DotSvg)
        THEN <<Replace(Head(listing), DotSvg, <<>>)>> ELSE <<>>)
       \o AllLucideIcons(Tail(listing))

\* [icon for icon in all_lucide_icons if token in icon]
RECURSIVE Candidates(_, _)
Candidates(icons, token) ==
  IF icons = <<>> THEN <<>>
  ELSE (IF Contains(Head(icons), token) THEN <<Head(icons)>> ELSE <<>>)
       \o Candidates(Tail(icons), token)

\* SuggestLoop keeping the candidates in sorted order
RECURSIVE SuggestLoopSorted(_, _, _)
SuggestLoopSorted(missing_icons, all_lucide_icons, alternatives) ==
  IF missing_icons = <<>> THEN alternatives
  ELSE LET current_name == Head(missing_icons)[1]
           lucide_name  == Head(missing_icons)[2]
           candidates   == Sorted(Range(Candidates(all_lucide_icons,
                                                   SplitFirst(lucide_name, "-"))))
       IN  SuggestLoopSorted(Tail(missing_icons), all_lucide_icons,
             IF candidates # <<>>
             THEN Put(alternatives, current_name,
                      SubSeq(candidates, 1, Min(5, Len(candidates))))
             ELSE alternatives)

\* the loop of suggest_alternatives over missing_icons
RECURSIVE SuggestLoop(_, _, _)
SuggestLoop(missing_icons, all_lucide_icons, alternatives) ==
  IF missing_icons = <<>> THEN alternatives
  ELSE LET current_name == Head(missing_icons)[1]
           lucide_name  == Head(missing_icons)[2]
           candidates   == Candidates(all_lucide_icons,
                                      SplitFirst(lucide_name, "-"))
       IN  SuggestLoop(Tail(missing_icons), all_lucide_icons,
             IF candidates # <<>>
             THEN Put(alternatives, current_name,
                      SubSeq(candidates, 1, Min(5, Len(candidates))))
             ELSE alternatives)

\* suggest_alternatives(missing_icons), listing what os.listdir returns
suggest_alternatives(missing_icons, listing) ==
  SuggestLoop(missing_icons, AllLucideIcons(listing), <<>>)

\* __main__ of map_icons_to_lucide.py
RunMapper ==
  /\ LET checked == check_icons_exist(ICON_MAPPING, lucideSrc)
     IN  mapperRun' =
           [status       |-> "done",
            found        |-> checked.found,
            missing      |-> checked.missing,
            alternatives |-> IF checked.missing # <<>>
                             THEN suggest_alternatives(checked.missing, lucideOrder)
                             ELSE <<>>]
  /\ mappingFile' = [exists |-> TRUE, text |-> JsonDump(ICON_MAPPING)]
  /\ UNCHANGED <<ICON_MAPPING, lucideSrc, lucideOrder, targetDir, oldIcons, copierRun,
                 prevCopier, prevTarget, qrcRun, cppRun>>
  /\ UNCHANGED audioVars

----------------------------------------------------------------------------
(* copy_lucide_icons.py *)

\* shutil.copy2(source_file, target_file) on the entries of target_dir, the
\* source being a regular file: a target that is a directory receives the
\* file under the source's base name; any other target is (over)written
copy2(src, entries, name) ==
  IF IsDir(entries, name)
  THEN WithEntry(entries, name, SubDir(src[name].data))
  ELSE WithEntry(entries, name, File(src[name].data))

\* CopyLoop refusing to overwrite: a target that exists counts as failed
RECURSIVE CopyLoopNoOverwrite(_, _, _, _, _)
CopyLoopNoOverwrite(icons, src, entries, copied, failed) ==
  IF icons = <<>>
  THEN [raised |-> FALSE, entries |-> entries, copied |-> copied, failed |-> failed]
  ELSE LET lucide_icon == Head(icons)
           file == SvgName(lucide_icon)
       IN  IF PathExists(src, file) /\ ~PathExists(entries, file)
           THEN IF IsDir(src, file)
                THEN [raised |-> TRUE, entries |-> entries,
                      copied |-> copied, failed |-> failed]
                ELSE CopyLoopNoOverwrite(Tail(icons), src, copy2(src, entries, file),
                                         Append(copied, lucide_icon), failed)
           ELSE CopyLoopNoOverwrite(Tail(icons), src, entries, copied,
                                    Append(failed, lucide_icon))

\* the loop of copy_icons() over sorted(lucide_icons); opening a source
\* that is a directory raises IsADirectoryError out of the loop
RECURSIVE CopyLoop(_, _, _, _, _)
CopyLoop(icons, src, entries, copied, failed) ==
  IF icons = <<>>
  THEN [raised |-> FALSE, entries |-> entries, copied |-> copied, failed |-> failed]
  ELSE LET lucide_icon == Head(icons)
           file == SvgName(lucide_icon)
       IN  IF PathExists(src, file)
           THEN IF IsDir(src, file)
                THEN [raised |-> TRUE, entries |-> entries,
                      copied |-> copied, failed |-> failed]
                ELSE CopyLoop(Tail(icons), src, copy2(src, entries, file),
                              Append(copied, lucide_icon), failed)
           ELSE CopyLoop(Tail(icons), src, entries, copied,
                         Append(failed, lucide_icon))

\* copy_icons() collecting the keys of the mapping instead of its values
copy_icons_keys(mapping, src, target) ==
  IF ~mapping.exists
  THEN [status |-> "raised", mapping |-> <<>>, copied |-> <<>>, failed |-> <<>>,
        target |-> target]
  ELSE LET icon_mapping == JsonLoad(mapping.text)
           lucide_icons == Keys(icon_mapping)
           r == CopyLoop(Sorted(lucide_icons), src, target.entries, <<>>, <<>>)
       IN  [status  |-> IF r.raised THEN "raised" ELSE "returned",
            mapping |-> mapping.text,
            copied  |-> IF r.raised THEN <<>> ELSE r.copied,
            failed  |-> IF r.raised THEN <<>> ELSE r.failed,
            target  |-> [exists |-> TRUE, entries |-> r.entries]]

\* copy_icons(): open() raises when the mapping file is missing; makedirs
\* creates the target directory; then the loop
copy_icons(mapping, src, target) ==
  IF ~mapping.exists
  THEN [status |-> "raised", mapping |-> <<>>, copied |-> <<>>, failed |-> <<>>,
        target |-> target]
  ELSE LET icon_mapping == JsonLoad(mapping.text)
           lucide_icons == Values(icon_mapping)
           r == CopyLoop(Sorted(lucide_icons), src, target.entries, <<>>, <<>>)
       IN  [status  |-> IF r.raised THEN "raised" ELSE "returned",
            mapping |-> mapping.text,
            copied  |-> IF r.raised THEN <<>> ELSE r.copied,
            failed  |-> IF r.raised THEN <<>> ELSE r.failed,
            target  |-> [exists |-> TRUE, entries |-> r.entries]]

\* __main__ of copy_lucide_icons.py
RunCopier ==
  LET r == copy_icons(mappingFile, lucideSrc, targetDir)
  IN  /\ copierRun' = [status |-> r.status, mapping |-> r.mapping,
                       copied |-> r.copied, failed |-> r.failed]
      /\ targetDir' = r.target
      /\ prevCopier' = copierRun
      /\ prevTarget' = targetDir
      /\ UNCHANGED <<ICON_MAPPING, lucideSrc, lucideOrder, mappingFile, oldIcons,
                     mapperRun,
                     qrcRun, cppRun>>
      /\ UNCHANGED audioVars

----------------------------------------------------------------------------
(* generate_qrc.py *)

\* editor/resources/icons as os.listdir sees it: the legacy entries and,
\* once it exists, the child directory lucide
OldDir ==
  IF targetDir.exists THEN WithEntry(oldIcons, <<"l","u","c","i","d","e">>, SubDir(<<>>))
  ELSE oldIcons

\* sorted([f for f in os.listdir(lucide_icons_dir) if f.endswith('.svg')])
LucideListing(dir) == Sorted({f \in DOMAIN dir : EndsWith(f, DotSvg)})

\* sorted([f for f in os.listdir(old_icons_dir)
\*         if f.endswith('.svg') and os.path.isfile(os.path.join(old_icons_dir, f))])
OldListing(dir) ==
  Sorted({f \in DOMAIN dir : EndsWith(f, DotSvg) /\ IsFile(dir, f)})

OldLine(icon)    == <<Lit("        <file>icons/"), Nm(icon), Lit("</file>")>>

\* LucideLine without the lucide/ directory
LucideLineFlat(icon) == <<Lit("        <file>icons/"), Nm(icon), Lit("</file>")>>

LucideLine(icon) == <<Lit("        <file>icons/lucide/"), Nm(icon), Lit("</file>")>>

\* generate_qrc(): the lines that '\n'.join() puts together, the last one
\* empty
generate_qrc(lucide_dir, old_dir) ==
  LET lucide_icons == LucideListing(lucide_dir)
      old_icons    == OldListing(old_dir)
  IN  << <<Lit("<RCC>")>>, <<Lit("    <qresource prefix=\"/\">")>> >>
      \o [i \in 1..Len(old_icons) |-> OldLine(old_icons[i])]
      \o [i \in 1..Len(lucide_icons) |-> LucideLine(lucide_icons[i])]
      \o << <<Lit("    </qresource>")>>, <<Lit("</RCC>")>>, <<Lit("")>> >>

\* __main__ of generate_qrc.py: os.listdir raises when the lucide directory
\* is missing; otherwise the content is written to editor_resources.qrc
RunQrc ==
  /\ qrcRun' = IF ~targetDir.exists
               THEN [status |-> "raised", content |-> <<>>]
               ELSE [status  |-> "written",
                     content |-> generate_qrc(targetDir.entries, OldDir)]
  /\ UNCHANGED <<ICON_MAPPING, lucideSrc, lucideOrder, mappingFile, targetDir,
                 oldIcons,
                 mapperRun, copierRun, prevCopier, prevTarget, cppRun>>
  /\ UNCHANGED audioVars

----------------------------------------------------------------------------
(* generate_icon_mapping_cpp.py *)

\* the dict categories, in declaration order (lines 20-43)
categories ==
  << [label    |-> <<"F","i","l","e"," ","O","p","e","r","a","t","i","o","n","s">>,
      prefixes |-> <<<<"f","i","l","e","-">>>>],
     [label    |-> <<"E","d","i","t"," ","O","p","e","r","a","t","i","o","n","s">>,
      prefixes |-> <<<<"e","d","i","t","-">>, <<"c","o","p","y">>, <<"d","e","l","e","t","e">>>>],
     [label    |-> <<"P","l","a","y","b","a","c","k"," ","C","o","n","t","r","o","l","s">>,
      prefixes |-> <<<<"p","l","a","y">>, <<"p","a","u","s","e">>, <<"s","t","o","p">>, <<"s","t","e","p","-">>>>],
     [label    |-> <<"P","a","n","e","l"," ","I","c","o","n","s">>,
      prefixes |-> <<<<"p","a","n","e","l","-">>>>],
     [label    |-> <<"Z","o","o","m"," ","a","n","d"," ","V","i","e","w"," ","C","o","n","t","r","o","l","s">>,
      prefixes |-> <<<<"z","o","o","m","-">>>>],
     [label    |-> <<"U","t","i","l","i","t","y"," ","I","c","o","n","s">>,
      prefixes |-> <<<<"s","e","t","t","i","n","g","s">>, <<"h","e","l","p">>, <<"s","e","a","r","c","h">>, <<"f","i","l","t","e","r">>, <<"r","e","f","r","e","s","h">>, <<"a","d","d">>, <<"r","e","m","o","v","e">>, <<"w","a","r","n","i","n","g">>, <<"e","r","r","o","r">>, <<"i","n","f","o">>>>],
     [label    |-> <<"A","r","r","o","w"," ","a","n","d"," ","N","a","v","i","g","a","t","i","o","n">>,
      prefixes |-> <<<<"a","r","r","o","w","-">>, <<"c","h","e","v","r","o","n","-">>>>],
     [label    |-> <<"N","o","d","e"," ","T","y","p","e"," ","I","c","o","n","s">>,
      prefixes |-> <<<<"n","o","d","e","-">>>>],
     [label    |-> <<"S","c","e","n","e"," ","O","b","j","e","c","t"," ","I","c","o","n","s">>,
      prefixes |-> <<<<"o","b","j","e","c","t","-">>>>],
     [label    |-> <<"T","r","a","n","s","f","o","r","m"," ","I","c","o","n","s">>,
      prefixes |-> <<<<"t","r","a","n","s","f","o","r","m","-">>>>],
     [label    |-> <<"A","s","s","e","t"," ","T","y","p","e"," ","I","c","o","n","s">>,
      prefixes |-> <<<<"a","s","s","e","t","-">>>>],
     [label    |-> <<"T","o","o","l"," ","I","c","o","n","s">>,
      prefixes |-> <<<<"t","o","o","l","-">>>>],
     [label    |-> <<"S","t","a","t","u","s"," ","I","c","o","n","s">>,
      prefixes |-> <<<<"s","t","a","t","u","s","-">>, <<"b","r","e","a","k","p","o","i","n","t">>, <<"e","x","e","c","u","t","e">>>>],
     [label    |-> <<"L","a","y","o","u","t"," ","I","c","o","n","s">>,
      prefixes |-> <<<<"l","a","y","o","u","t","-">>>>],
     [label    |-> <<"V","i","s","i","b","i","l","i","t","y"," ","a","n","d"," ","L","o","c","k"," ","I","c","o","n","s">>,
      prefixes |-> <<<<"v","i","s","i","b","l","e">>, <<"h","i","d","d","e","n">>, <<"l","o","c","k","e","d">>, <<"u","n","l","o","c","k","e","d">>>>],
     [label    |-> <<"A","u","d","i","o"," ","I","c","o","n","s">>,
      prefixes |-> <<<<"a","u","d","i","o","-">>, <<"m","i","c","r","o","p","h","o","n","e">>>>],
     [label    |-> <<"L","o","c","a","l","i","z","a","t","i","o","n"," ","I","c","o","n","s">>,
      prefixes |-> <<<<"l","a","n","g","u","a","g","e">>, <<"t","r","a","n","s","l","a","t","e">>, <<"l","o","c","a","l","e","-">>>>],
     [label    |-> <<"T","i","m","e","l","i","n","e"," ","I","c","o","n","s">>,
      prefixes |-> <<<<"k","e","y","f","r","a","m","e">>, <<"s","n","a","p">>, <<"l","o","o","p">>, <<"e","a","s","i","n","g","-">>>>],
     [label    |-> <<"I","n","s","p","e","c","t","o","r"," ","I","c","o","n","s">>,
      prefixes |-> <<<<"p","r","o","p","e","r","t","y","-">>>>],
     [label    |-> <<"S","y","s","t","e","m"," ","I","c","o","n","s">>,
      prefixes |-> <<<<"e","x","t","e","r","n","a","l","-">>, <<"f","o","l","d","e","r","-","o","p","e","n">>, <<"i","m","p","o","r","t">>, <<"e","x","p","o","r","t">>, <<"p","i","n">>, <<"u","n","p","i","n">>>>],
     [label    |-> <<"W","e","l","c","o","m","e"," ","I","c","o","n","s">>,
      prefixes |-> <<<<"w","e","l","c","o","m","e","-">>>>],
     [label    |-> <<"T","e","m","p","l","a","t","e"," ","I","c","o","n","s">>,
      prefixes |-> <<<<"t","e","m","p","l","a","t","e","-">>>>] >>

Other == <<"O","t","h","e","r">>

\* the inner loop of get_category: some prefix of the list matches
RECURSIVE AnyPrefix(_, _)
AnyPrefix(icon_name, prefixes) ==
  IF prefixes = <<>> THEN FALSE
  ELSE IF StartsWith(icon_name, Head(prefixes)) \/ icon_name = Head(prefixes)
       THEN TRUE
       ELSE AnyPrefix(icon_name, Tail(prefixes))

\* the outer loop of get_category over categories.items()
RECURSIVE CategoryLoop(_, _)
CategoryLoop(icon_name, cats) ==
  IF cats = <<>> THEN Other
  ELSE IF AnyPrefix(icon_name, Head(cats).prefixes) THEN Head(cats).label
       ELSE CategoryLoop(icon_name, Tail(cats))

get_category(icon_name) == CategoryLoop(icon_name, categories)

\* GroupLoop assigning a one-element list instead of appending
RECURSIVE GroupLoopOverwrite(_, _)
GroupLoopOverwrite(names, grouped) ==
  IF names = <<>> THEN grouped
  ELSE LET icon_name == Head(names)
           category  == get_category(icon_name)
       IN  GroupLoopOverwrite(Tail(names), Put(grouped, category, <<icon_name>>))

\* the loop that fills grouped, over sorted(icon_mapping.keys())
RECURSIVE GroupLoop(_, _)
GroupLoop(names, grouped) ==
  IF names = <<>> THEN grouped
  ELSE LET icon_name == Head(names)
           category  == get_category(icon_name)
           g == IF category \notin Keys(grouped)
                THEN Put(grouped, category, <<>>) ELSE grouped
       IN  GroupLoop(Tail(names),
                     Put(g, category, Append(Get(g, category), icon_name)))

CommentLine(category) == <<Lit("  // "), Nm(category)>>

AssignLine(icon_name, lucide_name) ==
  <<Lit("  m_iconFilePaths[\""), Nm(icon_name),
    Lit("\"] = \":/icons/lucide/"), Nm(lucide_name), Lit(".svg\";")>>

BlankLine == <<Lit("")>>

\* the lines of one category: header, assignments, blank line
GroupLines(category, grouped, icon_mapping) ==
  LET names == Get(grouped, category)
  IN  <<CommentLine(category)>>
      \o [i \in 1..Len(names) |-> AssignLine(names[i], Get(icon_mapping, names[i]))]
      \o <<BlankLine>>

\* the loop over sorted(grouped.keys())
RECURSIVE EmitLoop(_, _, _, _)
EmitLoop(cats, grouped, icon_mapping, lines) ==
  IF cats = <<>> THEN lines
  ELSE EmitLoop(Tail(cats), grouped, icon_mapping,
                lines \o GroupLines(Head(cats), grouped, icon_mapping))

Preamble ==
  << <<Lit("  // Icon name mapping to Lucide icon files")>>,
     <<Lit("  // Format: m_iconFilePaths[\"icon-name\"] = \":/icons/lucide/icon-file.svg\";")>>,
     BlankLine >>

\* generate_cpp_mapping() iterating grouped in insertion order, unsorted
generate_cpp_mapping_unsorted(icon_mapping) ==
  LET grouped == GroupLoop(Sorted(Keys(icon_mapping)), <<>>)
  IN  EmitLoop([i \in 1..Len(grouped) |-> grouped[i][1]], grouped,
               icon_mapping, Preamble)

\* generate_cpp_mapping(): the lines that '\n'.join() puts together
generate_cpp_mapping(icon_mapping) ==
  LET grouped == GroupLoop(Sorted(Keys(icon_mapping)), <<>>)
  IN  EmitLoop(Sorted(Keys(grouped)), grouped, icon_mapping, Preamble)

\* s.count(sub) for str: the occurrences from the left, not overlapping
RECURSIVE Count(_, _)
Count(s, sub) ==
  IF Len(s) < Len(sub) THEN 0
  ELSE IF StartsWith(s, sub)
       THEN 1 + Count(SubSeq(s, Len(sub) + 1, Len(s)), sub)
       ELSE Count(Tail(s), sub)

\* occurrences of 'm_iconFilePaths' in a part of a line: in the literals of
\* generate_cpp_mapping that have it (the Format comment, the start of an
\* assignment), once each; in an interpolated name, counted
PartCount(part) ==
  (IF part.lit \in {"  // Format: m_iconFilePaths[\"icon-name\"] = \":/icons/lucide/icon-file.svg\";",
                    "  m_iconFilePaths[\""}
   THEN 1 ELSE 0)
  + Count(part.name, <<"m","_","i","c","o","n","F","i","l","e","P","a","t","h","s">>)

RECURSIVE LineCount(_)
LineCount(line) ==
  IF line = <<>> THEN 0 ELSE PartCount(Head(line)) + LineCount(Tail(line))

\* cpp_code.count('m_iconFilePaths')
RECURSIVE CodeCount(_)
CodeCount(lines) ==
  IF lines = <<>> THEN 0 ELSE LineCount(Head(lines)) + CodeCount(Tail(lines))

\* __main__ of generate_icon_mapping_cpp.py: open() raises when the mapping
\* file is missing; total is the number printed as "Total icons mapped"
RunCpp ==
  /\ cppRun' = IF ~mappingFile.exists
               THEN [status |-> "raised", mapping |-> <<>>, lines |-> <<>>,
                     total |-> 0]
               ELSE LET cpp_code == generate_cpp_mapping(JsonLoad(mappingFile.text))
                    IN  [status  |-> "printed",
                         mapping |-> JsonLoad(mappingFile.text),
                         lines   |-> cpp_code,
                         total   |-> CodeCount(cpp_code)]
  /\ UNCHANGED <<ICON_MAPPING, lucideSrc, lucideOrder, mappingFile, targetDir,
                 oldIcons,
                 mapperRun, copierRun, prevCopier, prevTarget, qrcRun>>
  /\ UNCHANGED audioVars

----------------------------------------------------------------------------
(* generate_assets.py: create_placeholder_audio *)

\* largest duration_ms of a direct call of create_silent_wav, next to the
\* durations of the call sites
MaxDurationMs == 50

sample_rate       == 44100
DefaultDurationMs == 100
SfxDurationMs     == 500
MusicDurationMs   == 1000

Durations ==
  (0..MaxDurationMs) \cup {DefaultDurationMs, SfxDurationMs, MusicDurationMs}

\* a pathlib.Path below BASE_PATH: directory, stem and suffix of the name
PathOf(dir, stem, suffix) == [dir |-> dir, stem |-> stem, suffix |-> suffix]

\* path.with_suffix(suffix)
with_suffix(path, suffix) == [path EXCEPT !.suffix = suffix]

\* struct.pack '<I' and '<H': little-endian unsigned, 4 and 2 bytes
PackI(x) == <<x % 256, (x \div 256) % 256, (x \div 65536) % 256,
              (x \div 16777216) % 256>>
PackH(x) == <<x % 256, (x \div 256) % 256>>

\* struct.pack '4s' of b'RIFF', b'WAVE', b'fmt ', b'data'
TagRIFF == <<82, 73, 70, 70>>
TagWAVE == <<87, 65, 86, 69>>
TagFmt  == <<102, 109, 116, 32>>
TagData == <<100, 97, 116, 97>>

\* NumSamples with the division done first, on integers
NumSamplesDivFirst(duration) == sample_rate * (duration \div 1000)

\* int(sample_rate * duration_ms / 1000): the float quotient, truncated
NumSamples(duration) == (sample_rate * duration) \div 1000

\* struct.pack('<4sI4s4sIHHIIHH4sI', ...)
WavHeader(num_samples) ==
  TagRIFF \o PackI(36 + num_samples * 2) \o TagWAVE
  \o TagFmt \o PackI(16) \o PackH(1) \o PackH(1)
  \o PackI(sample_rate) \o PackI(sample_rate * 2) \o PackH(2) \o PackH(16)
  \o TagData \o PackI(num_samples * 2)

\* b'\x00\x00' * num_samples, kept as the repeated unit and the count
SilentSamples(num_samples) == [unit |-> <<0, 0>>, times |-> num_samples]

\* the bytes f.write(header); f.write(samples) leave in the file
WavFile(duration) ==
  [header  |-> WavHeader(NumSamples(duration)),
   samples |-> SilentSamples(NumSamples(duration))]

\* a printed line: text, a path or file name, text
Printed(msg, arg, tail) == [msg |-> msg, arg |-> arg, tail |-> tail]

\* create_silent_wav(path, duration_ms): the files and the output after it
create_silent_wav(files, out, path, duration) ==
  [files |-> [p \in DOMAIN files \cup {path} |->
                IF p = path THEN WavFile(duration) ELSE files[p]],
   out   |-> Append(out, Printed("Created placeholder: ", path, ""))]

sfx_files ==
  <<PathOf("", "door_open", ".wav"), PathOf("", "footsteps", ".wav"),
    PathOf("", "ui_click", ".wav")>>

music_files ==
  <<PathOf("", "main_theme", ".ogg"), PathOf("", "emotional_theme", ".ogg")>>

\* BASE_PATH / subdir / name
Under(subdir, name) == [name EXCEPT !.dir = subdir]

\* path of a direct call of create_silent_wav
ProbePath == PathOf("sfx", "probe", ".wav")

\* a call create_silent_wav(ProbePath, duration_ms)
CallCreateSilentWav ==
  /\ ProbePath \notin DOMAIN assetFiles
  /\ LET r == create_silent_wav(assetFiles, stdout, ProbePath, duration_ms)
     IN  assetFiles' = r.files /\ stdout' = r.out
  /\ UNCHANGED <<duration_ms, audioPc>>
  /\ UNCHANGED imageVars
  /\ UNCHANGED iconVars

\* one iteration of the loop over sfx_files
CreateSfx ==
  /\ audioPc < Len(sfx_files)
  /\ LET sfx == sfx_files[audioPc + 1]
         r == create_silent_wav(assetFiles, stdout, Under("sfx", sfx),
                                SfxDurationMs)
     IN  assetFiles' = r.files /\ stdout' = r.out
  /\ audioPc' = audioPc + 1
  /\ UNCHANGED duration_ms
  /\ UNCHANGED imageVars
  /\ UNCHANGED iconVars

\* one iteration of the loop over music_files
CreateMusic ==
  /\ audioPc >= Len(sfx_files)
  /\ audioPc < Len(sfx_files) + Len(music_files)
  /\ LET music == music_files[audioPc - Len(sfx_files) + 1]
         path == Under("music", music)
         r == create_silent_wav(assetFiles, stdout, with_suffix(path, ".wav"),
                                MusicDurationMs)
     IN  /\ assetFiles' = r.files
         /\ stdout' = Append(r.out,
               Printed("Note: ", music,
                       " created as WAV placeholder. Replace with actual OGG files."))
  /\ audioPc' = audioPc + 1
  /\ UNCHANGED duration_ms
  /\ UNCHANGED imageVars
  /\ UNCHANGED iconVars

AudioDone == audioPc = Len(sfx_files) + Len(music_files)


----------------------------------------------------------------------------
(* generate_assets.py: character sprites, backgrounds and the preview *)

\* Markup is a sequence of pieces in the order of the text: a piece is text
\* (a literal stretch of the f-string, or an interpolated str) or the shape
\* an eye or a mouth is drawn with.
NoShape == [tag |-> "", nums |-> <<>>, cmds |-> <<>>]
Txt(s)  == [text |-> s, shape |-> NoShape]
Shp(sh) == [text |-> "", shape |-> sh]

\* 'ellipse cx="." cy="." rx="." ry="."'
Ellipse(cx, cy, rx, ry) ==
  [tag |-> "ellipse", nums |-> <<cx, cy, rx, ry>>, cmds |-> <<>>]

\* 'path d="..."': the commands of the path data
PathD(cmds)   == [tag |-> "path", nums |-> <<>>, cmds |-> cmds]
Cmd(op, args) == [op |-> op, args |-> args]

\* d.get(k, default)
GetOr(d, k, default) == IF k \in Keys(d) THEN Get(d, k) ELSE default

\* None, and the truth value of an optional str
PyNone == "None"
Truthy(v) == v # PyNone /\ v # ""

eye_shapes ==
  << <<<<"n","e","u","t","r","a","l">>,   <<Ellipse(170, 280, 15, 12), Ellipse(230, 280, 15, 12)>> >>,
     <<<<"h","a","p","p","y">>,     <<PathD(<<Cmd("M", <<155, 280>>), Cmd("Q", <<170, 270, 185, 280>>)>>),
                       PathD(<<Cmd("M", <<215, 280>>), Cmd("Q", <<230, 270, 245, 280>>)>>)>> >>,
     <<<<"s","a","d">>,       <<PathD(<<Cmd("M", <<155, 275>>), Cmd("Q", <<170, 285, 185, 275>>)>>),
                       PathD(<<Cmd("M", <<215, 275>>), Cmd("Q", <<230, 285, 245, 275>>)>>)>> >>,
     <<<<"s","u","r","p","r","i","s","e","d">>, <<Ellipse(170, 280, 18, 18), Ellipse(230, 280, 18, 18)>> >> >>

mouth_shapes ==
  << <<<<"n","e","u","t","r","a","l">>,   PathD(<<Cmd("M", <<175, 340>>), Cmd("L", <<225, 340>>)>>)>>,
     <<<<"h","a","p","p","y">>,     PathD(<<Cmd("M", <<170, 335>>), Cmd("Q", <<200, 360, 230, 335>>)>>)>>,
     <<<<"s","a","d">>,       PathD(<<Cmd("M", <<170, 350>>), Cmd("Q", <<200, 335, 230, 350>>)>>)>>,
     <<<<"s","u","r","p","r","i","s","e","d">>, Ellipse(200, 345, 15, 20)>> >>

\* SelectShapes falling back to the shapes of "surprised"
SelectShapesSurprised(expression) ==
  LET eyes == GetOr(eye_shapes, expression, Get(eye_shapes, <<"s","u","r","p","r","i","s","e","d">>))
  IN  [left_eye  |-> eyes[1],
       right_eye |-> eyes[2],
       mouth     |-> GetOr(mouth_shapes, expression, Get(mouth_shapes, <<"s","u","r","p","r","i","s","e","d">>))]

\* left_eye, right_eye = eye_shapes.get(...); mouth = mouth_shapes.get(...)
SelectShapes(expression) ==
  LET eyes == GetOr(eye_shapes, expression, Get(eye_shapes, <<"n","e","u","t","r","a","l">>))
  IN  [left_eye  |-> eyes[1],
       right_eye |-> eyes[2],
       mouth     |-> GetOr(mouth_shapes, expression, Get(mouth_shapes, <<"n","e","u","t","r","a","l">>))]

\* the glasses of "sam"
Glasses(accent_color) ==
  <<Txt("\n    <circle cx=\"170\" cy=\"280\" r=\"25\" fill=\"none\" stroke=\""),
    Txt(accent_color),
    Txt("\" stroke-width=\"3\"/>\n    <circle cx=\"230\" cy=\"280\" r=\"25\" fill=\"none\" stroke=\""),
    Txt(accent_color),
    Txt("\" stroke-width=\"3\"/>\n    <line x1=\"195\" y1=\"280\" x2=\"205\" y2=\"280\" stroke=\""),
    Txt(accent_color),
    Txt("\" stroke-width=\"3\"/>\n    <line x1=\"145\" y1=\"280\" x2=\"130\" y2=\"270\" stroke=\""),
    Txt(accent_color),
    Txt("\" stroke-width=\"3\"/>\n    <line x1=\"255\" y1=\"280\" x2=\"270\" y2=\"270\" stroke=\""),
    Txt(accent_color),
    Txt("\" stroke-width=\"3\"/>\n            ")>>

\* the tie of "professor"
Tie(accent_color) ==
  <<Txt("\n    <polygon points=\"200,500 185,520 200,700 215,520\" fill=\""),
    Txt(accent_color),
    Txt("\"/>\n            ")>>

\* SelectAccent looking at the name only
SelectAccentByName(name, accent_color) ==
  IF name = <<"s","a","m">> THEN Glasses(accent_color)
  ELSE IF name = <<"p","r","o","f","e","s","s","o","r">> THEN Tie(accent_color)
  ELSE <<>>

\* accent = "" ; if accent_color: if name == "sam": ... elif name == "professor": ...
SelectAccent(name, accent_color) ==
  IF Truthy(accent_color)
  THEN IF name = <<"s","a","m">> THEN Glasses(accent_color)
       ELSE IF name = <<"p","r","o","f","e","s","s","o","r">> THEN Tie(accent_color)
       ELSE <<>>
  ELSE <<>>

create_character_svg(name, color, expression, accent_color) ==
  LET left_eye  == SelectShapes(expression).left_eye
      right_eye == SelectShapes(expression).right_eye
      mouth     == SelectShapes(expression).mouth
      accent    == SelectAccent(name, accent_color)
  IN
  <<Txt("<?xml version=\"1.0\" encoding=\"UTF-8\"?>\n<svg width=\"400\" height=\"1080\" viewBox=\"0 0 400 1080\" xmlns=\"http://www.w3.org/2000/svg\">\n  <defs>\n    <linearGradient id=\"bodyGrad\" x1=\"0%\" y1=\"0%\" x2=\"0%\" y2=\"100%\">\n      <stop offset=\"0%\" style=\"stop-color:"),
    Txt(color),
    Txt(";stop-opacity:1\" />\n      <stop offset=\"100%\" style=\"stop-color:"),
    Txt(color),
    Txt(";stop-opacity:0.8\" />\n    </linearGradient>\n  </defs>\n\n  <!-- Body silhouette -->\n  <ellipse cx=\"200\" cy=\"300\" rx=\"100\" ry=\"120\" fill=\"url(#bodyGrad)\"/>\n\n  <!-- Shoulders and torso -->\n  <path d=\"M100 380 Q100 450 120 550 L120 900 Q120 1000 200 1080 Q280 1000 280 900 L280 550 Q300 450 300 380 Q250 420 200 420 Q150 420 100 380\"\n        fill=\"url(#bodyGrad)\"/>\n\n  <!-- Neck -->\n  <rect x=\"175\" y=\"380\" width=\"50\" height=\"60\" fill=\""),
    Txt(color),
    Txt("\"/>\n\n  <!-- Face features (white/light for contrast) -->\n  <"),
    Shp(left_eye),
    Txt(" fill=\"white\"/>\n  <"),
    Shp(right_eye),
    Txt(" fill=\"white\"/>\n  <"),
    Shp(mouth),
    Txt(" fill=\"none\" stroke=\"white\" stroke-width=\"4\" stroke-linecap=\"round\"/>\n\n  <!-- Accent features -->\n  ")>>
  \o accent
  \o <<Txt("\n</svg>\n")>>

HallwayElements ==
  <<Txt("\n    <rect x=\"50\" y=\"400\" width=\"120\" height=\"500\" fill=\"#555\" stroke=\"#333\" stroke-width=\"2\"/>\n    <rect x=\"200\" y=\"400\" width=\"120\" height=\"500\" fill=\"#555\" stroke=\"#333\" stroke-width=\"2\"/>\n    <rect x=\"350\" y=\"400\" width=\"120\" height=\"500\" fill=\"#555\" stroke=\"#333\" stroke-width=\"2\"/>\n    <rect x=\"500\" y=\"400\" width=\"120\" height=\"500\" fill=\"#555\" stroke=\"#333\" stroke-width=\"2\"/>\n    <rect x=\"1260\" y=\"400\" width=\"120\" height=\"500\" fill=\"#555\" stroke=\"#333\" stroke-width=\"2\"/>\n    <rect x=\"1410\" y=\"400\" width=\"120\" height=\"500\" fill=\"#555\" stroke=\"#333\" stroke-width=\"2\"/>\n    <rect x=\"1560\" y=\"400\" width=\"120\" height=\"500\" fill=\"#555\" stroke=\"#333\" stroke-width=\"2\"/>\n    <rect x=\"1710\" y=\"400\" width=\"120\" height=\"500\" fill=\"#555\" stroke=\"#333\" stroke-width=\"2\"/>\n    <!-- Floor -->\n    <rect x=\"0\" y=\"900\" width=\"1920\" height=\"180\" fill=\"#8B7355\"/>\n        ")>>

CafeteriaElements ==
  <<Txt("\n    <rect x=\"100\" y=\"600\" width=\"300\" height=\"20\" fill=\"#8B4513\" rx=\"5\"/>\n    <rect x=\"150\" y=\"620\" width=\"10\" height=\"200\" fill=\"#654321\"/>\n    <rect x=\"350\" y=\"620\" width=\"10\" height=\"200\" fill=\"#654321\"/>\n    <rect x=\"500\" y=\"600\" width=\"300\" height=\"20\" fill=\"#8B4513\" rx=\"5\"/>\n    <rect x=\"550\" y=\"620\" width=\"10\" height=\"200\" fill=\"#654321\"/>\n    <rect x=\"750\" y=\"620\" width=\"10\" height=\"200\" fill=\"#654321\"/>\n    <rect x=\"1100\" y=\"600\" width=\"300\" height=\"20\" fill=\"#8B4513\" rx=\"5\"/>\n    <rect x=\"1500\" y=\"600\" width=\"300\" height=\"20\" fill=\"#8B4513\" rx=\"5\"/>\n    <!-- Counter -->\n    <rect x=\"0\" y=\"300\" width=\"1920\" height=\"100\" fill=\"#DEB887\"/>\n    <!-- Floor -->\n    <rect x=\"0\" y=\"820\" width=\"1920\" height=\"260\" fill=\"#D2B48C\"/>\n        ")>>

LibraryElements ==
  <<Txt("\n    <rect x=\"50\" y=\"200\" width=\"200\" height=\"600\" fill=\"#654321\"/>\n    <rect x=\"60\" y=\"210\" width=\"180\" height=\"80\" fill=\"#8B0000\"/>\n    <rect x=\"60\" y=\"300\" width=\"180\" height=\"80\" fill=\"#006400\"/>\n    <rect x=\"60\" y=\"390\" width=\"180\" height=\"80\" fill=\"#00008B\"/>\n    <rect x=\"60\" y=\"480\" width=\"180\" height=\"80\" fill=\"#8B4513\"/>\n    <rect x=\"60\" y=\"570\" width=\"180\" height=\"80\" fill=\"#4B0082\"/>\n    <rect x=\"60\" y=\"660\" width=\"180\" height=\"80\" fill=\"#B8860B\"/>\n\n    <rect x=\"300\" y=\"200\" width=\"200\" height=\"600\" fill=\"#654321\"/>\n    <rect x=\"310\" y=\"210\" width=\"180\" height=\"80\" fill=\"#2F4F4F\"/>\n    <rect x=\"310\" y=\"300\" width=\"180\" height=\"80\" fill=\"#8B0000\"/>\n    <rect x=\"310\" y=\"390\" width=\"180\" height=\"80\" fill=\"#556B2F\"/>\n    <rect x=\"310\" y=\"480\" width=\"180\" height=\"80\" fill=\"#483D8B\"/>\n    <rect x=\"310\" y=\"570\" width=\"180\" height=\"80\" fill=\"#8B4513\"/>\n    <rect x=\"310\" y=\"660\" width=\"180\" height=\"80\" fill=\"#2F4F4F\"/>\n\n    <rect x=\"1420\" y=\"200\" width=\"200\" height=\"600\" fill=\"#654321\"/>\n    <rect x=\"1670\" y=\"200\" width=\"200\" height=\"600\" fill=\"#654321\"/>\n    <!-- Floor -->\n    <rect x=\"0\" y=\"800\" width=\"1920\" height=\"280\" fill=\"#DEB887\"/>\n        ")>>

RooftopElements ==
  <<Txt("\n    <ellipse cx=\"300\" cy=\"200\" rx=\"150\" ry=\"50\" fill=\"#FFB347\" opacity=\"0.6\"/>\n    <ellipse cx=\"700\" cy=\"150\" rx=\"200\" ry=\"60\" fill=\"#FFB347\" opacity=\"0.5\"/>\n    <ellipse cx=\"1400\" cy=\"180\" rx=\"180\" ry=\"55\" fill=\"#FFB347\" opacity=\"0.6\"/>\n    <!-- Sun -->\n    <circle cx=\"1600\" cy=\"400\" r=\"120\" fill=\"#FFD700\"/>\n    <circle cx=\"1600\" cy=\"400\" r=\"100\" fill=\"#FFA500\"/>\n    <!-- Railing -->\n    <rect x=\"0\" y=\"850\" width=\"1920\" height=\"20\" fill=\"#444\"/>\n    <rect x=\"100\" y=\"750\" width=\"10\" height=\"120\" fill=\"#444\"/>\n    <rect x=\"300\" y=\"750\" width=\"10\" height=\"120\" fill=\"#444\"/>\n    <rect x=\"500\" y=\"750\" width=\"10\" height=\"120\" fill=\"#444\"/>\n    <rect x=\"700\" y=\"750\" width=\"10\" height=\"120\" fill=\"#444\"/>\n    <!-- Floor -->\n    <rect x=\"0\" y=\"870\" width=\"1920\" height=\"210\" fill=\"#555\"/>\n        ")>>

ClassroomElements ==
  <<Txt("\n    <!-- Desks -->\n    <rect x=\"200\" y=\"600\" width=\"150\" height=\"100\" fill=\"#8B4513\"/>\n    <rect x=\"400\" y=\"600\" width=\"150\" height=\"100\" fill=\"#8B4513\"/>\n    <rect x=\"600\" y=\"600\" width=\"150\" height=\"100\" fill=\"#8B4513\"/>\n    <rect x=\"200\" y=\"750\" width=\"150\" height=\"100\" fill=\"#8B4513\"/>\n    <rect x=\"400\" y=\"750\" width=\"150\" height=\"100\" fill=\"#8B4513\"/>\n    <rect x=\"600\" y=\"750\" width=\"150\" height=\"100\" fill=\"#8B4513\"/>\n    <rect x=\"1100\" y=\"600\" width=\"150\" height=\"100\" fill=\"#8B4513\"/>\n    <rect x=\"1300\" y=\"600\" width=\"150\" height=\"100\" fill=\"#8B4513\"/>\n    <rect x=\"1500\" y=\"600\" width=\"150\" height=\"100\" fill=\"#8B4513\"/>\n    <!-- Blackboard -->\n    <rect x=\"700\" y=\"150\" width=\"500\" height=\"300\" fill=\"#2F4F4F\"/>\n    <rect x=\"710\" y=\"160\" width=\"480\" height=\"280\" fill=\"#1a1a2e\"/>\n    <!-- Floor -->\n    <rect x=\"0\" y=\"850\" width=\"1920\" height=\"230\" fill=\"#D2B48C\"/>\n        ")>>

create_background_svg(name, primary, secondary, description) ==
  LET elements ==
        IF Contains(name, <<"h","a","l","l","w","a","y">>) THEN HallwayElements
        ELSE IF Contains(name, <<"c","a","f","e","t","e","r","i","a">>) THEN CafeteriaElements
        ELSE IF Contains(name, <<"l","i","b","r","a","r","y">>) THEN LibraryElements
        ELSE IF Contains(name, <<"r","o","o","f","t","o","p">>) \/ Contains(name, <<"s","u","n","s","e","t">>)
             THEN RooftopElements
        ELSE IF Contains(name, <<"c","l","a","s","s","r","o","o","m">>) \/ Contains(name, <<"e","m","p","t","y">>)
             THEN ClassroomElements
        ELSE <<>>
  IN
  <<Txt("<?xml version=\"1.0\" encoding=\"UTF-8\"?>\n<svg width=\"1920\" height=\"1080\" viewBox=\"0 0 1920 1080\" xmlns=\"http://www.w3.org/2000/svg\">\n  <defs>\n    <linearGradient id=\"bgGrad\" x1=\"0%\" y1=\"0%\" x2=\"0%\" y2=\"100%\">\n      <stop offset=\"0%\" style=\"stop-color:"),
    Txt(primary),
    Txt(";stop-opacity:1\" />\n      <stop offset=\"100%\" style=\"stop-color:"),
    Txt(secondary),
    Txt(";stop-opacity:1\" />\n    </linearGradient>\n  </defs>\n\n  <!-- Background gradient -->\n  <rect width=\"1920\" height=\"1080\" fill=\"url(#bgGrad)\"/>\n\n  <!-- Scene elements -->\n  ")>>
  \o elements
  \o <<Txt("\n\n  <!-- Description text (for preview) -->\n  <text x=\"960\" y=\"50\" font-family=\"Arial\" font-size=\"24\" fill=\"white\" text-anchor=\"middle\" opacity=\"0.5\">"),
    Txt(description),
    Txt("</text>\n</svg>\n")>>

\* the file cairosvg.svg2png writes: the rendering of the markup at a size
Rendered(svg_content, width, height) ==
  [format |-> "png", markup |-> svg_content, width |-> width, height |-> height]

\* the file f.write(svg_content) leaves
Written(svg_content) ==
  [format |-> "text", markup |-> svg_content, width |-> 0, height |-> 0]

\* files with the file at path set to content
WithFile(files, path, content) ==
  [p \in DOMAIN files \cup {path} |-> IF p = path THEN content ELSE files[p]]

\* svg_to_png writing the fallback to output_path itself
svg_to_png_same_path(files, out, svg_content, output_path, width, height, renders) ==
  IF renders
  THEN [ret   |-> TRUE,
        files |-> WithFile(files, output_path, Rendered(svg_content, width, height)),
        out   |-> out]
  ELSE [ret   |-> FALSE,
        files |-> WithFile(files, output_path, Written(svg_content)),
        out   |-> Append(out, Printed("Error converting to PNG: ",
                                      PathOf("", <<>>, ""), ""))]

\* svg_to_png(svg_content, output_path, width, height): its return value,
\* the files and the output after it.  renders is whether the import of
\* cairosvg and svg2png go through; the text of the exception is left out
\* of the printed line, and a failed svg2png leaves no file behind.
svg_to_png(files, out, svg_content, output_path, width, height, renders) ==
  IF renders
  THEN [ret   |-> TRUE,
        files |-> WithFile(files, output_path, Rendered(svg_content, width, height)),
        out   |-> out]
  ELSE [ret   |-> FALSE,
        files |-> WithFile(files, with_suffix(output_path, ".svg"),
                           Written(svg_content)),
        out   |-> Append(out, Printed("Error converting to PNG: ",
                                      PathOf("", <<>>, ""), ""))]

characters ==
  <<[char_name |-> <<"a","l","e","x">>, color |-> "#4A90D9", accent |-> PyNone,
     expressions |-> <<<<"n","e","u","t","r","a","l">>, <<"h","a","p","p","y">>, <<"s","a","d">>>>],
    [char_name |-> <<"s","a","m">>, color |-> "#F5A623", accent |-> "#333333",
     expressions |-> <<<<"n","e","u","t","r","a","l">>, <<"h","a","p","p","y">>, <<"s","u","r","p","r","i","s","e","d">>>>],
    [char_name |-> <<"p","r","o","f","e","s","s","o","r">>, color |-> "#2C3E50", accent |-> "#7ED321",
     expressions |-> <<<<"n","e","u","t","r","a","l">>, <<"h","a","p","p","y">>>>]>>

\* the iterations of the two nested loops of generate_characters, in order
RECURSIVE CharacterJobsFrom(_)
CharacterJobsFrom(chars) ==
  IF chars = <<>> THEN <<>>
  ELSE LET config == Head(chars)
       IN  [i \in 1..Len(config.expressions) |->
              [char_name |-> config.char_name, color |-> config.color,
               accent |-> config.accent, expr |-> config.expressions[i]]]
           \o CharacterJobsFrom(Tail(chars))

CharacterJobs == CharacterJobsFrom(characters)

backgrounds ==
  <<[bg_name |-> <<"s","c","h","o","o","l","_","h","a","l","l","w","a","y">>, primary |-> "#E8E8E8",
     secondary |-> "#B0B0B0", description |-> "School Hallway"],
    [bg_name |-> <<"c","a","f","e","t","e","r","i","a">>, primary |-> "#FFF8DC",
     secondary |-> "#F5DEB3", description |-> "Cafeteria - Warm and Inviting"],
    [bg_name |-> <<"l","i","b","r","a","r","y">>, primary |-> "#F5F5DC",
     secondary |-> "#D2B48C", description |-> "Library - Quiet Study Area"],
    [bg_name |-> <<"r","o","o","f","t","o","p","_","s","u","n","s","e","t">>, primary |-> "#FF6B6B",
     secondary |-> "#4ECDC4", description |-> "Rooftop at Sunset"],
    [bg_name |-> <<"c","l","a","s","s","r","o","o","m","_","e","m","p","t","y">>, primary |-> "#DDD",
     secondary |-> "#888", description |-> "Empty Classroom - Evening"]>>

PreviewSvg ==
  <<Txt("<?xml version=\"1.0\" encoding=\"UTF-8\"?>\n<svg width=\"480\" height=\"270\" viewBox=\"0 0 480 270\" xmlns=\"http://www.w3.org/2000/svg\">\n  <defs>\n    <linearGradient id=\"previewBg\" x1=\"0%\" y1=\"0%\" x2=\"0%\" y2=\"100%\">\n      <stop offset=\"0%\" style=\"stop-color:#FF6B6B;stop-opacity:1\" />\n      <stop offset=\"100%\" style=\"stop-color:#4ECDC4;stop-opacity:1\" />\n    </linearGradient>\n  </defs>\n\n  <!-- Background -->\n  <rect width=\"480\" height=\"270\" fill=\"url(#previewBg)\"/>\n\n  <!-- Silhouette characters -->\n  <ellipse cx=\"120\" cy=\"180\" rx=\"30\" ry=\"40\" fill=\"#4A90D9\"/>\n  <ellipse cx=\"360\" cy=\"180\" rx=\"30\" ry=\"40\" fill=\"#F5A623\"/>\n\n  <!-- Title -->\n  <text x=\"240\" y=\"50\" font-family=\"Arial\" font-size=\"18\" fill=\"white\" text-anchor=\"middle\" font-weight=\"bold\">First Day at Academy</text>\n  <text x=\"240\" y=\"75\" font-family=\"Arial\" font-size=\"12\" fill=\"white\" text-anchor=\"middle\">Interactive Demo</text>\n\n  <!-- Features -->\n  <text x=\"240\" y=\"250\" font-family=\"Arial\" font-size=\"10\" fill=\"white\" text-anchor=\"middle\">3 Endings | Branching Story | Ready to Play</text>\n</svg>\n")>>

\* the call of svg_to_png and the print after it, as the three call sites
\* make them: fallback is the line printed when svg_to_png returns False
ConvertAndReport(svg, output_path, width, height, fallback, renders) ==
  LET r == svg_to_png(imageFiles, stdout, svg, output_path, width, height, renders)
  IN  /\ imageFiles' = r.files
      /\ stdout' = Append(r.out,
            IF r.ret THEN Printed("Created: ", output_path, "")
            ELSE fallback)
      /\ returns' = Append(returns, [path |-> output_path, renders |-> renders,
                                     ret |-> r.ret])

ImagesBeforeAudio == Len(CharacterJobs) + Len(backgrounds)

\* one iteration of the loops of generate_characters
GenerateCharacter ==
  /\ genPc < Len(CharacterJobs)
  /\ \E renders \in BOOLEAN :
       LET job == CharacterJobs[genPc + 1]
           svg == create_character_svg(job.char_name, job.color, job.expr,
                                       job.accent)
           stem == job.char_name \o <<"_">> \o job.expr
       IN  ConvertAndReport(svg, PathOf("characters", stem, ".png"), 400, 1080,
                            Printed("Created SVG fallback for: ",
                                    PathOf("", stem, ""), ""),
                            renders)
  /\ genPc' = genPc + 1
  /\ UNCHANGED <<duration_ms, assetFiles, audioPc, svgCall>>
  /\ UNCHANGED iconVars

\* one iteration of the loop of generate_backgrounds
GenerateBackground ==
  /\ genPc >= Len(CharacterJobs)
  /\ genPc < ImagesBeforeAudio
  /\ \E renders \in BOOLEAN :
       LET config == backgrounds[genPc - Len(CharacterJobs) + 1]
           svg == create_background_svg(config.bg_name, config.primary,
                                        config.secondary, config.description)
           output_path == with_suffix(PathOf("backgrounds", config.bg_name, ".jpg"),
                                      ".png")
       IN  ConvertAndReport(svg, output_path, 1920, 1080,
                            Printed("Created SVG fallback for: ",
                                    PathOf("", config.bg_name, ""), ""),
                            renders)
  /\ genPc' = genPc + 1
  /\ UNCHANGED <<duration_ms, assetFiles, audioPc, svgCall>>
  /\ UNCHANGED iconVars

\* create_placeholder_audio as the third step of __main__
GenerateSfx   == genPc = ImagesBeforeAudio /\ CreateSfx
GenerateMusic == genPc = ImagesBeforeAudio /\ CreateMusic

\* create_preview_image as the fourth step of __main__
create_preview_image ==
  /\ genPc = ImagesBeforeAudio
  /\ AudioDone
  /\ \E renders \in BOOLEAN :
       ConvertAndReport(PreviewSvg, PathOf("..", <<"p","r","e","v","i","e","w">>, ".png"), 480, 270,
                        Printed("Created SVG fallback for preview",
                                PathOf("", <<>>, ""), ""),
                        renders)
  /\ genPc' = genPc + 1
  /\ UNCHANGED <<duration_ms, assetFiles, audioPc, svgCall>>
  /\ UNCHANGED iconVars

GenerateDone == genPc = ImagesBeforeAudio + 1

\* a direct call of create_character_svg with the arguments of svgCall
CallCreateCharacterSvg ==
  /\ svgCall.status = "never"
  /\ svgCall' = [svgCall EXCEPT
                   !.status = "returned",
                   !.svg = create_character_svg(svgCall.name, svgCall.color,
                              svgCall.expression, svgCall.accent_color)]
  /\ UNCHANGED <<duration_ms, assetFiles, stdout, audioPc, imageFiles, returns,
                 genPc>>
  /\ UNCHANGED iconVars
----------------------------------------------------------------------------
(* Initial states and specifications. *)

\* the sub-sequence of s at the indices in I
RECURSIVE Pick(_, _, _)
Pick(s, I, i) ==
  IF i > Len(s) THEN <<>>
  ELSE (IF i \in I THEN <<s[i]>> ELSE <<>>) \o Pick(s, I, i + 1)

Excerpt == SubSeq(TableExcerpt, 1, Min(MaxEntries, Len(TableExcerpt)))

\* the tables of the model: the sub-tables of the excerpt, in table order
Tables == {Pick(Excerpt, I, 1) : I \in SUBSET (1..Len(Excerpt))}

\* names of the icons the excerpt refers to
LucideNames == {SvgName(v) : v \in Values(TableExcerpt)}

\* the directories over a set of names: each name absent, a regular file
\* with the content data[name], or a child directory
DirsOver(names, data) ==
  {[n \in DOMAIN k |-> IF k[n] = "file" THEN File(data[n]) ELSE SubDir(<<>>)] :
     k \in UNION {[present -> {"file", "dir"}] : present \in SUBSET names}}

\* content of the icon files of the Lucide checkout, each its own
LucideData == [n \in LucideNames |-> n]

\* content of files an earlier run or a person left behind
StaleData(names) == [n \in names |-> <<"s","t","a","l","e">>]

\* a mapping file edited by hand, keys not in sorted order
StaleMapping == << <<<<"z","o","o","m","-","i","n">>, <<"z","o","o","m","-","i","n">>>>, <<<<"c","o","p","y">>, <<"c","o","p","y">>>> >>

NoFile == [exists |-> FALSE, text |-> <<>>]
NoDir  == [exists |-> FALSE, entries |-> <<>>]

IconsIdle ==
  /\ mapperRun = [status |-> "never", found |-> <<>>, missing |-> <<>>,
                  alternatives |-> <<>>]
  /\ copierRun = [status |-> "never", mapping |-> <<>>, copied |-> <<>>, failed |-> <<>>]
  /\ prevCopier = copierRun
  /\ prevTarget = targetDir
  /\ qrcRun = [status |-> "never", content |-> <<>>]
  /\ cppRun = [status |-> "never", mapping |-> <<>>, lines |-> <<>>, total |-> 0]

NoCall ==
  [status |-> "never", name |-> <<>>, color |-> "", expression |-> <<>>,
   accent_color |-> "", svg |-> <<>>]

ImagesIdle ==
  /\ imageFiles = <<>>
  /\ returns = <<>>
  /\ genPc = 0
  /\ svgCall = NoCall

AudioIdle ==
  /\ duration_ms = DefaultDurationMs
  /\ assetFiles = <<>>
  /\ stdout = <<>>
  /\ audioPc = 0
  /\ ImagesIdle


\* Icon Mapper and Icon Copier, run in any order and any number of times
Init ==
  /\ ICON_MAPPING \in Tables
  /\ lucideSrc \in DirsOver(LucideNames, LucideData)
  /\ lucideOrder = Sorted(DOMAIN lucideSrc)
  /\ mappingFile \in {NoFile, [exists |-> TRUE, text |-> JsonDump(StaleMapping)]}
  /\ targetDir \in {NoDir} \cup
        {[exists |-> TRUE, entries |-> e] : e \in DirsOver(LucideNames, StaleData(LucideNames))}
  /\ oldIcons = <<>>
  /\ IconsIdle
  /\ AudioIdle

Next == RunMapper \/ RunCopier

Spec == Init /\ [][Next]_vars

\* names the manifest generator may meet in the two directories
QrcLucideNames == {<<"c","o","p","y",".","s","v","g">>, <<"f","i","l","e","-","p","l","u","s",".","s","v","g">>, <<"L","I","C","E","N","S","E">>}
QrcOldNames    == {<<"f","i","l","e","-","p","l","u","s",".","s","v","g">>, <<"a","p","p",".","s","v","g">>, <<"a","p","p",".","p","n","g">>}

\* Resource Manifest Generator over any content of the two directories
QrcInit ==
  /\ ICON_MAPPING = <<>>
  /\ lucideSrc = <<>>
  /\ lucideOrder = <<>>
  /\ mappingFile = NoFile
  /\ targetDir \in {NoDir} \cup
        {[exists |-> TRUE, entries |-> e] : e \in DirsOver(QrcLucideNames, StaleData(QrcLucideNames))}
  /\ oldIcons \in DirsOver(QrcOldNames, StaleData(QrcOldNames))
  /\ IconsIdle
  /\ AudioIdle

QrcNext == RunQrc

QrcSpec == QrcInit /\ [][QrcNext]_vars

\* largest number of entries of the Lucide directory when alternatives are
\* suggested
MaxListing == 6

\* names of the Lucide directory when alternatives are suggested
SuggestNames ==
  {<<"f","i","l","e",".","s","v","g">>, <<"f","i","l","e","-","x",".","s","v","g">>, <<"f","i","l","e","-","c","o","d","e",".","s","v","g">>, <<"f","i","l","e","s",".","s","v","g">>, <<"p","r","o","f","i","l","e",".","s","v","g">>,
   <<"f","i","l","e","-","t","e","x","t",".","s","v","g">>, <<"f","i","l","e","-","n","o","t","e","s",".","t","x","t">>}

\* the orders os.listdir may give the names of S in
RECURSIVE Orders(_)
Orders(S) ==
  IF S = {} THEN {<<>>}
  ELSE UNION {{<<x>> \o o : o \in Orders(S \ {x})} : x \in S}

\* Icon Mapper over directories in which no icon of the table is found,
\* listed in any order
SuggestInit ==
  /\ ICON_MAPPING \in {Pick(TableExcerpt, I, 1) : I \in SUBSET {1, 2, 6}}
  /\ \E present \in SUBSET SuggestNames :
       /\ Cardinality(present) <= MaxListing
       /\ lucideSrc = [n \in present |-> File(n)]
       /\ lucideOrder \in Orders(present)
  /\ mappingFile = NoFile
  /\ targetDir = NoDir
  /\ oldIcons = <<>>
  /\ IconsIdle
  /\ AudioIdle

SuggestNext == RunMapper

SuggestSpec == SuggestInit /\ [][SuggestNext]_vars

\* the four scripts one after the other, each once: mapper, copier,
\* manifest generator, source-table generator
PipelineMapper == mapperRun.status = "never" /\ RunMapper
PipelineCopier ==
  mapperRun.status = "done" /\ copierRun.status = "never" /\ RunCopier
PipelineQrc ==
  copierRun.status # "never" /\ qrcRun.status = "never" /\ RunQrc
PipelineCpp ==
  qrcRun.status # "never" /\ cppRun.status = "never" /\ RunCpp

\* the pipeline over any table, any Lucide directory and any destination
\* directory left by earlier runs
PipelineInit ==
  /\ ICON_MAPPING \in Tables
  /\ lucideSrc \in DirsOver(LucideNames, LucideData)
  /\ lucideOrder = Sorted(DOMAIN lucideSrc)
  /\ mappingFile = NoFile
  /\ targetDir \in {NoDir} \cup
        {[exists |-> TRUE, entries |-> e] : e \in DirsOver(LucideNames, StaleData(LucideNames))}
  /\ oldIcons = [n \in {<<"a","p","p",".","s","v","g">>} |-> File(<<"s","t","a","l","e">>)]
  /\ IconsIdle
  /\ AudioIdle

PipelineNext == PipelineMapper \/ PipelineCopier \/ PipelineQrc \/ PipelineCpp

PipelineSpec == PipelineInit /\ [][PipelineNext]_vars

\* number of entries of KeyExcerpt a mapping file may draw from
MaxKeys == 6

\* entries of mapping files for the Source-Table Generator, not in sorted
\* order: entries of ICON_MAPPING and, for keys no prefix matches, others
KeyExcerpt ==
  << <<<<"z","o","o","m","-","i","n">>,     <<"z","o","o","m","-","i","n">>>>,
     <<<<"f","i","l","e","-","n","e","w">>,    <<"f","i","l","e","-","p","l","u","s">>>>,
     <<<<"m","i","s","c">>,        <<"b","o","x">>>>,
     <<<<"c","o","p","y">>,        <<"c","o","p","y">>>>,
     <<<<"f","o","l","d","e","r","-","o","p","e","n">>, <<"f","o","l","d","e","r","-","o","p","e","n">>>>,
     <<<<"e","d","i","t","-","c","o","p","y">>,   <<"c","o","p","y">>>>,
     <<<<"f","i","l","e","-","o","p","e","n">>,   <<"f","o","l","d","e","r","-","o","p","e","n">>>>,
     <<<<"m","y","-","f","i","l","e","-","n","e","w">>, <<"f","i","l","e">>>> >>

CppMappings ==
  LET pool == SubSeq(KeyExcerpt, 1, Min(MaxKeys, Len(KeyExcerpt)))
  IN  {Pick(pool, I, 1) : I \in SUBSET (1..Len(pool))}

\* Source-Table Generator over any mapping file
CppInit ==
  /\ ICON_MAPPING = <<>>
  /\ lucideSrc = <<>>
  /\ lucideOrder = <<>>
  /\ mappingFile \in {NoFile} \cup
        {[exists |-> TRUE, text |-> JsonDump(m)] : m \in CppMappings}
  /\ targetDir = NoDir
  /\ oldIcons = <<>>
  /\ IconsIdle
  /\ AudioIdle

CppNext == RunCpp

CppSpec == CppInit /\ [][CppNext]_vars

\* create_silent_wav for any duration, and create_placeholder_audio
AudioInit ==
  /\ ICON_MAPPING = <<>>
  /\ lucideSrc = <<>>
  /\ lucideOrder = <<>>
  /\ mappingFile = NoFile
  /\ targetDir = NoDir
  /\ oldIcons = <<>>
  /\ IconsIdle
  /\ duration_ms \in Durations
  /\ assetFiles = <<>>
  /\ stdout = <<>>
  /\ audioPc = 0
  /\ ImagesIdle

AudioNext == CallCreateSilentWav \/ CreateSfx \/ CreateMusic

AudioSpec == AudioInit /\ [][AudioNext]_vars

\* __main__ of generate_assets.py: the four steps in order, the renderer
\* failing on any of the images
GenerateInit ==
  /\ ICON_MAPPING = <<>>
  /\ lucideSrc = <<>>
  /\ lucideOrder = <<>>
  /\ mappingFile = NoFile
  /\ targetDir = NoDir
  /\ oldIcons = <<>>
  /\ IconsIdle
  /\ AudioIdle

GenerateNext ==
  \/ GenerateCharacter
  \/ GenerateBackground
  \/ GenerateSfx
  \/ GenerateMusic
  \/ create_preview_image

\* the script runs its steps one after the other until the last
GenerateSpec == GenerateInit /\ [][GenerateNext]_vars /\ WF_vars(GenerateNext)

\* arguments of direct calls of create_character_svg
CharNames   == {<<"a","l","e","x">>, <<"s","a","m">>, <<"p","r","o","f","e","s","s","o","r">>, <<"S","a","m">>, <<>>}
CharColors  == {"#4A90D9", "#F5A623"}
Expressions == {<<"n","e","u","t","r","a","l">>, <<"h","a","p","p","y">>, <<"s","a","d">>, <<"s","u","r","p","r","i","s","e","d">>, <<"a","n","g","r","y">>, <<"H","a","p","p","y">>, <<>>}
AccentColors == {PyNone, "", "#333333", "#7ED321"}

\* create_character_svg called with any arguments
CharacterInit ==
  /\ ICON_MAPPING = <<>>
  /\ lucideSrc = <<>>
  /\ lucideOrder = <<>>
  /\ mappingFile = NoFile
  /\ targetDir = NoDir
  /\ oldIcons = <<>>
  /\ IconsIdle
  /\ duration_ms = DefaultDurationMs
  /\ assetFiles = <<>>
  /\ stdout = <<>>
  /\ audioPc = 0
  /\ imageFiles = <<>>
  /\ returns = <<>>
  /\ genPc = 0
  /\ svgCall \in [status : {"never"}, name : CharNames, color : CharColors,
                   expression : Expressions, accent_color : AccentColors,
                   svg : {<<>>}]

CharacterNext == CallCreateCharacterSvg

CharacterSpec == CharacterInit /\ [][CharacterNext]_vars

----------------------------------------------------------------------------
(* Properties. *)

\* the dict a mapping file's text is the serialization of
Mappings == Tables \cup CppMappings \cup {StaleMapping}
MappingOf(text) == CHOOSE m \in Mappings : JsonDump(m) = text

\* s is strictly increasing in code-point lexicographic order
Increasing(s) == \A i, j \in 1..Len(s) : i < j => StrLess(s[i], s[j])

InLucideSrc(entry)  == SvgName(entry[2]) \in DOMAIN lucideSrc
NotInLucideSrc(entry) == SvgName(entry[2]) \notin DOMAIN lucideSrc

\* C1: after check_icons_exist(), every key of ICON_MAPPING occurs exactly
\* once in found + missing, the two lists hold exactly the table's entries,
\* an entry is in found iff <lucide_name>.svg exists in the Lucide directory,
\* and both lists keep the order of the table.
C1_FoundMissingPartition ==
  mapperRun.status = "done" =>
    LET found   == mapperRun.found
        missing == mapperRun.missing
        both    == found \o missing
    IN  /\ \A k \in {ICON_MAPPING[i][1] : i \in 1..Len(ICON_MAPPING)} :
             Cardinality({i \in 1..Len(both) : both[i][1] = k}) = 1
        /\ {both[i][1] : i \in 1..Len(both)}
             = {ICON_MAPPING[i][1] : i \in 1..Len(ICON_MAPPING)}
        /\ Len(both) = Len(ICON_MAPPING)
        /\ \A i \in 1..Len(found) : SvgName(found[i][2]) \in DOMAIN lucideSrc
        /\ \A i \in 1..Len(missing) : SvgName(missing[i][2]) \notin DOMAIN lucideSrc
        /\ found = SelectSeq(ICON_MAPPING, InLucideSrc)
        /\ missing = SelectSeq(ICON_MAPPING, NotInLucideSrc)

\* a run that found two entries in table order that is not sorted order, one
\* of them by a directory of that name, and missed an entry
C1_Witness ==
  /\ mapperRun.status = "done"
  /\ Len(mapperRun.found) >= 2
  /\ Len(mapperRun.missing) >= 1
  /\ StrLess(mapperRun.found[2][1], mapperRun.found[1][1])
  /\ \E i \in 1..Len(mapperRun.found) :
       lucideSrc[SvgName(mapperRun.found[i][2])].kind = "dir"

\* C2: when copy_icons() returns, copied is exactly the distinct mapping
\* values whose <id>.svg exists in the source directory and failed the
\* distinct values whose file does not exist, each once, the lists disjoint
\* and each in lexicographic order, and every identifier in copied has a
\* file <id>.svg in the destination directory.
C2_CopiedFailedAndCopies ==
  copierRun.status = "returned" =>
    LET m      == MappingOf(copierRun.mapping)
        vals   == {m[i][2] : i \in 1..Len(m)}
        copied == copierRun.copied
        failed == copierRun.failed
    IN  /\ Range(copied) = {v \in vals : SvgName(v) \in DOMAIN lucideSrc}
        /\ Range(failed) = {v \in vals : SvgName(v) \notin DOMAIN lucideSrc}
        /\ Cardinality(Range(copied)) = Len(copied)
        /\ Cardinality(Range(failed)) = Len(failed)
        /\ Range(copied) \cap Range(failed) = {}
        /\ Increasing(copied)
        /\ Increasing(failed)
        /\ \A i \in 1..Len(copied) :
             /\ SvgName(copied[i]) \in DOMAIN targetDir.entries
             /\ targetDir.entries[SvgName(copied[i])]
                  = File(lucideSrc[SvgName(copied[i])].data)

\* C3: when the mapper has run and the copier has returned on the mapping
\* file the mapper persisted, the Lucide names of found are the copier's
\* copied and those of missing its failed, as sets; for the table
\* {file-new: file-plus, file-open: folder-open} with only file-plus.svg
\* present the four lists are the ones of the example.
C3_MapperCopierAgree ==
  (/\ mapperRun.status = "done"
   /\ copierRun.status = "returned"
   /\ copierRun.mapping = mappingFile.text) =>
    /\ {mapperRun.found[i][2] : i \in 1..Len(mapperRun.found)}
         = Range(copierRun.copied)
    /\ {mapperRun.missing[i][2] : i \in 1..Len(mapperRun.missing)}
         = Range(copierRun.failed)
    /\ (/\ ICON_MAPPING = << <<<<"f","i","l","e","-","n","e","w">>, <<"f","i","l","e","-","p","l","u","s">>>>,
                             <<<<"f","i","l","e","-","o","p","e","n">>, <<"f","o","l","d","e","r","-","o","p","e","n">>>> >>
        /\ DOMAIN lucideSrc = {<<"f","i","l","e","-","p","l","u","s",".","s","v","g">>})
       => /\ mapperRun.found = << <<<<"f","i","l","e","-","n","e","w">>, <<"f","i","l","e","-","p","l","u","s">>>> >>
          /\ mapperRun.missing = << <<<<"f","i","l","e","-","o","p","e","n">>, <<"f","o","l","d","e","r","-","o","p","e","n">>>> >>
          /\ copierRun.copied = <<<<"f","i","l","e","-","p","l","u","s">>>>
          /\ copierRun.failed = <<<<"f","o","l","d","e","r","-","o","p","e","n">>>>

\* the example of C3, mapper and copier both run
C3_Witness ==
  /\ mapperRun.status = "done"
  /\ copierRun.status = "returned"
  /\ copierRun.mapping = mappingFile.text
  /\ ICON_MAPPING = << <<<<"f","i","l","e","-","n","e","w">>, <<"f","i","l","e","-","p","l","u","s">>>>,
                       <<<<"f","i","l","e","-","o","p","e","n">>, <<"f","o","l","d","e","r","-","o","p","e","n">>>> >>
  /\ DOMAIN lucideSrc = {<<"f","i","l","e","-","p","l","u","s",".","s","v","g">>}
  /\ copierRun.copied = <<<<"f","i","l","e","-","p","l","u","s">>>>

\* C4: two runs of copy_icons() in a row that read the same mapping file
\* and both return give the same copied and the same failed, and the second
\* leaves the destination directory as the first left it.
C4_CopierIdempotent ==
  (/\ copierRun.status = "returned"
   /\ prevCopier.status = "returned"
   /\ prevCopier.mapping = copierRun.mapping) =>
    /\ copierRun.copied = prevCopier.copied
    /\ copierRun.failed = prevCopier.failed
    /\ targetDir = prevTarget

\* a second run that copied over the files of the first
C4_Witness ==
  /\ copierRun.status = "returned"
  /\ prevCopier.status = "returned"
  /\ prevCopier.mapping = copierRun.mapping
  /\ Len(copierRun.copied) >= 2
  /\ Len(copierRun.failed) >= 1
  /\ \A i \in 1..Len(copierRun.copied) :
       prevTarget.entries[SvgName(copierRun.copied[i])].kind = "file"

\* the <file> entries of a manifest: the interpolated paths, in order
IsFileLine(line) == Len(line) = 3 /\ line[3] = Lit("</file>")
FileLines(content) == SelectSeq(content, IsFileLine)
IsOldEntry(line)    == line[1] = Lit("        <file>icons/")
IsLucideEntry(line) == line[1] = Lit("        <file>icons/lucide/")

\* the regular files named *.svg of a directory
SvgFiles(dir) ==
  {f \in DOMAIN dir : dir[f].kind = "file" /\ EndsWith(f, <<".", "s", "v", "g">>)}

\* C5: generate_qrc() emits one <file> entry per legacy SVG file and one
\* per copied SVG file and no other, so the entry count is the sum of the
\* two counts; the legacy entries (icons/) come before the copied entries
\* (icons/lucide/), each group is in lexicographic order of file name, and
\* a name in both directories gives two entries.
C5_ManifestEntries ==
  qrcRun.status = "written" =>
    LET entries == FileLines(qrcRun.content)
        old     == SelectSeq(entries, IsOldEntry)
        lucide  == SelectSeq(entries, IsLucideEntry)
    IN  /\ Len(entries)
             = Cardinality(SvgFiles(oldIcons)) + Cardinality(SvgFiles(targetDir.entries))
        /\ {old[i][2].name : i \in 1..Len(old)} = SvgFiles(oldIcons)
        /\ {lucide[i][2].name : i \in 1..Len(lucide)} = SvgFiles(targetDir.entries)
        /\ entries = old \o lucide
        /\ Increasing([i \in 1..Len(old) |-> old[i][2].name])
        /\ Increasing([i \in 1..Len(lucide) |-> lucide[i][2].name])

\* C6: every <file> entry of the manifest names an immediate child that is
\* a regular file whose name ends in .svg, in the legacy directory and in
\* the copied directory alike.
C6_RegularFilesOnly ==
  qrcRun.status = "written" =>
    \A i \in 1..Len(qrcRun.content) :
      LET line == qrcRun.content[i]
      IN  IsFileLine(line) =>
            \/ IsOldEntry(line) /\ line[2].name \in SvgFiles(oldIcons)
            \/ IsLucideEntry(line) /\ line[2].name \in SvgFiles(targetDir.entries)

\* the assignment line the generator is to emit for a key and its value
ExpectedAssign(key, value) ==
  <<Lit("  m_iconFilePaths[\""), Nm(key), Lit("\"] = \":/icons/lucide/"),
    Nm(value), Lit(".svg\";")>>

IsAssignment(line) == Len(line) = 5
IsHeader(line)     == Len(line) = 2 /\ line[1] = Lit("  // ")
IsBlank(line)      == line = <<Lit("")>>

\* the header comment above line i of the emitted text (0 when none)
HeaderAbove(lines, i) ==
  LET hs == {h \in 1..(i - 1) : IsHeader(lines[h])}
  IN  IF hs = {} THEN 0 ELSE CHOOSE h \in hs : \A g \in hs : g <= h

\* the categories with a prefix that key starts with, as indices of the table
Matching(key) ==
  {c \in 1..Len(categories) :
     \E p \in 1..Len(categories[c].prefixes) :
        StartsWith(key, categories[c].prefixes[p])}

\* the label of the first matching category in declaration order, else Other
RuleCategory(key) ==
  IF Matching(key) = {} THEN <<"O", "t", "h", "e", "r">>
  ELSE categories[CHOOSE c \in Matching(key) : \A d \in Matching(key) : c <= d].label

\* C7: the emitted text holds exactly one assignment line
\* m_iconFilePaths["<key>"] = ":/icons/lucide/<value>.svg"; per mapping key
\* and no other assignment line, each below the header comment of the key's
\* rule-matched category, "Other" for a key no prefix matches.
C7_OneLinePerKey ==
  cppRun.status = "printed" =>
    LET m     == MappingOf(mappingFile.text)
        lines == cppRun.lines
    IN  /\ \A k \in 1..Len(m) :
             Cardinality({i \in 1..Len(lines) :
                            lines[i] = ExpectedAssign(m[k][1], m[k][2])}) = 1
        /\ \A i \in 1..Len(lines) :
             IsAssignment(lines[i]) =>
               /\ \E k \in 1..Len(m) : lines[i] = ExpectedAssign(m[k][1], m[k][2])
               /\ HeaderAbove(lines, i) # 0
               /\ lines[HeaderAbove(lines, i)][2].name = RuleCategory(lines[i][2].name)
        /\ Cardinality({i \in 1..Len(lines) : IsAssignment(lines[i])}) = Len(m)

\* a text with a key under "Other", a key equal to a prefix and two keys
\* of one category
C7_Witness ==
  /\ cppRun.status = "printed"
  /\ \E i, j, k \in 1..Len(cppRun.lines) :
       /\ cppRun.lines[i] = ExpectedAssign(<<"m","i","s","c">>, <<"b","o","x">>)
       /\ cppRun.lines[HeaderAbove(cppRun.lines, i)] = <<Lit("  // "), Nm(<<"O","t","h","e","r">>)>>
       /\ cppRun.lines[j] = ExpectedAssign(<<"c","o","p","y">>, <<"c","o","p","y">>)
       /\ cppRun.lines[k] = ExpectedAssign(<<"e","d","i","t","-","c","o","p","y">>, <<"c","o","p","y">>)
       /\ HeaderAbove(cppRun.lines, j) = HeaderAbove(cppRun.lines, k)

\* the declaration index of a category label (0 for Other)
DeclIndex(label) ==
  IF \E c \in 1..Len(categories) : categories[c].label = label
  THEN CHOOSE c \in 1..Len(categories) : categories[c].label = label
  ELSE 0

\* C8: every key lies in the group of the first category in declaration
\* order with a prefix the key starts with; the groups follow each other in
\* alphabetical order of their labels; inside a group the keys are in
\* lexicographic order; a group is one header comment line, its assignment
\* lines and one blank line.
C8_GroupOrder ==
  cppRun.status = "printed" =>
    LET lines == cppRun.lines
        n     == Len(lines)
        hdrs  == SelectSeq(lines, IsHeader)
    IN  /\ n >= 3
        /\ \A i \in 4..n :
             /\ IsHeader(lines[i]) \/ IsAssignment(lines[i]) \/ IsBlank(lines[i])
             /\ IsHeader(lines[i]) => (i = 4 \/ IsBlank(lines[i - 1]))
             /\ IsHeader(lines[i]) => (i < n /\ IsAssignment(lines[i + 1]))
             /\ IsAssignment(lines[i]) =>
                  /\ IsHeader(lines[i - 1]) \/ IsAssignment(lines[i - 1])
                  /\ i < n /\ (IsAssignment(lines[i + 1]) \/ IsBlank(lines[i + 1]))
             /\ IsBlank(lines[i]) => IsAssignment(lines[i - 1])
             /\ IsBlank(lines[i]) => (i = n \/ IsHeader(lines[i + 1]))
        /\ n > 3 => IsHeader(lines[4]) /\ IsBlank(lines[n])
        /\ Increasing([i \in 1..Len(hdrs) |-> hdrs[i][2].name])
        /\ \A i \in 4..n :
             IsAssignment(lines[i]) =>
               /\ \A c \in Matching(lines[i][2].name) :
                    DeclIndex(lines[HeaderAbove(lines, i)][2].name) <= c
               /\ Matching(lines[i][2].name) # {} =>
                    DeclIndex(lines[HeaderAbove(lines, i)][2].name)
                      \in Matching(lines[i][2].name)
               /\ Matching(lines[i][2].name) = {} =>
                    DeclIndex(lines[HeaderAbove(lines, i)][2].name) = 0
               /\ IsAssignment(lines[i - 1]) =>
                    StrLess(lines[i - 1][2].name, lines[i][2].name)

\* a text whose groups are in alphabetical order against declaration order
\* (Edit Operations before File Operations, Other before System Icons) with
\* a group of two keys
C8_Witness ==
  /\ cppRun.status = "printed"
  /\ \E e, f, o, s \in 1..Len(cppRun.lines) :
       /\ e < f /\ f < o /\ o < s
       /\ cppRun.lines[e] = <<Lit("  // "), Nm(<<"E","d","i","t"," ","O","p","e","r","a","t","i","o","n","s">>)>>
       /\ cppRun.lines[f] = <<Lit("  // "), Nm(<<"F","i","l","e"," ","O","p","e","r","a","t","i","o","n","s">>)>>
       /\ cppRun.lines[o] = <<Lit("  // "), Nm(<<"O","t","h","e","r">>)>>
       /\ cppRun.lines[s] = <<Lit("  // "), Nm(<<"S","y","s","t","e","m"," ","I","c","o","n","s">>)>>
       /\ IsAssignment(cppRun.lines[e + 1]) /\ IsAssignment(cppRun.lines[e + 2])

\* length in bytes of a file written by create_silent_wav
FileLen(f) == Len(f.header) + Len(f.samples.unit) * f.samples.times

\* the little-endian unsigned 32-bit number in bytes at..at+3 of the header
FieldAt(f, at) ==
  f.header[at] + 256 * f.header[at + 1] + 65536 * f.header[at + 2]
    + 16777216 * f.header[at + 3]

\* every payload byte is zero
PayloadZero(f) ==
  f.samples.times = 0 \/ \A i \in 1..Len(f.samples.unit) : f.samples.unit[i] = 0

\* round(a / b) for a >= 0, b > 0: to the nearest integer, halves to even
Round(a, b) ==
  LET q == a \div b
      r == a % b
  IN  IF 2 * r < b THEN q
      ELSE IF 2 * r > b THEN q + 1
      ELSE IF q % 2 = 0 THEN q ELSE q + 1

\* the header fields and the payload of f are those of a file of n samples
WavOfSamples(f, n) ==
  /\ FileLen(f) = 44 + 2 * n
  /\ FieldAt(f, 41) = FileLen(f) - 44
  /\ FieldAt(f, 5) = FileLen(f) - 8
  /\ PayloadZero(f)

\* C9 as stated: the file written for duration_ms has byte length
\* 44 + 2 * round(44100 * duration_ms / 1000), its data-size field holds the
\* payload length, its RIFF size field the file length - 8, every payload
\* byte is zero, and for duration_ms = 500 the length is 44 + 44100.
C9_RoundedLength ==
  ProbePath \in DOMAIN assetFiles =>
    /\ WavOfSamples(assetFiles[ProbePath], Round(44100 * duration_ms, 1000))
    /\ duration_ms = 500 => FileLen(assetFiles[ProbePath]) = 44 + 44100

\* C9 as amended: the byte length is 44 + 2 * floor(44100 * duration_ms /
\* 1000), the fraction of a sample is dropped and not rounded; the fields,
\* the payload and the length for 500 ms (also of the 500 ms sound effect
\* files) are as stated.
C9_TruncatedLength ==
  /\ ProbePath \in DOMAIN assetFiles =>
       /\ WavOfSamples(assetFiles[ProbePath], (44100 * duration_ms) \div 1000)
       /\ duration_ms = 500 => FileLen(assetFiles[ProbePath]) = 44 + 44100
  /\ \A p \in DOMAIN assetFiles :
       p.dir = "sfx" /\ p # ProbePath => FileLen(assetFiles[p]) = 44 + 44100

\* a file written for a duration whose sample count has a fraction of a
\* half or more
C9_Witness ==
  /\ ProbePath \in DOMAIN assetFiles
  /\ duration_ms = 7
  /\ FileLen(assetFiles[ProbePath]) = 44 + 2 * 308

\* the bytes 1-4 and 9-12 of f spell RIFF and WAVE
IsRiffWave(f) ==
  /\ SubSeq(f.header, 1, 4) = <<82, 73, 70, 70>>
  /\ SubSeq(f.header, 9, 12) = <<87, 65, 86, 69>>

\* C10: after create_placeholder_audio() each music placeholder exists as a
\* RIFF/WAVE container under the .ogg name (music/main_theme.ogg,
\* music/emotional_theme.ogg) and a note that it must be replaced by a real
\* OGG file is printed for it.
C10_MusicUnderOggName ==
  audioPc = 5 =>
    \A stem \in {"main_theme", "emotional_theme"} :
      /\ [dir |-> "music", stem |-> stem, suffix |-> ".ogg"] \in DOMAIN assetFiles
      /\ IsRiffWave(assetFiles[[dir |-> "music", stem |-> stem, suffix |-> ".ogg"]])
      /\ \E i \in 1..Len(stdout) :
           /\ stdout[i].msg = "Note: "
           /\ stdout[i].arg = [dir |-> "", stem |-> stem, suffix |-> ".ogg"]


----------------------------------------------------------------------------
(* Properties of the image steps of generate_assets.py. *)

\* the markup of the i-th image of a run, in the order of __main__
AssetMarkup(i) ==
  IF i <= Len(CharacterJobs)
  THEN LET job == CharacterJobs[i]
       IN  create_character_svg(job.char_name, job.color, job.expr, job.accent)
  ELSE IF i <= ImagesBeforeAudio
  THEN LET config == backgrounds[i - Len(CharacterJobs)]
       IN  create_background_svg(config.bg_name, config.primary,
                                 config.secondary, config.description)
  ELSE PreviewSvg

\* the fallback for the image at path is reported on stdout
FallbackReported(path) ==
  \E k \in 1..Len(stdout) :
    \/ /\ stdout[k].msg = "Created SVG fallback for: "
       /\ stdout[k].arg.stem = path.stem
    \/ /\ stdout[k].msg = "Created SVG fallback for preview"
       /\ path.stem = <<"p","r","e","v","i","e","w">>

\* what holds of the calls of svg_to_png made so far
AssetsHandled ==
  /\ Len(returns) = genPc
  /\ \A i \in 1..Len(returns) :
       LET r      == returns[i]
           sibling == [dir |-> r.path.dir, stem |-> r.path.stem, suffix |-> ".svg"]
       IN  /\ r.path.suffix = ".png"
           /\ \A j \in 1..Len(returns) : j # i => returns[j].path # r.path
           /\ IF r.renders
              THEN /\ r.ret = TRUE
                   /\ sibling \notin DOMAIN imageFiles
                   /\ ~FallbackReported(r.path)
              ELSE /\ r.ret = FALSE
                   /\ sibling \in DOMAIN imageFiles
                   /\ imageFiles[sibling].format = "text"
                   /\ imageFiles[sibling].markup = AssetMarkup(i)
                   /\ FallbackReported(r.path)
  /\ (audioPc > 0 \/ GenerateDone) => Len(returns) >= ImagesBeforeAudio
  /\ GenerateDone =>
       /\ AudioDone
       /\ Cardinality({i \in 1..Len(returns) : returns[i].path.dir = "characters"}) = 8
       /\ Cardinality({i \in 1..Len(returns) : returns[i].path.dir = "backgrounds"}) = 5
       /\ Cardinality({i \in 1..Len(returns) : returns[i].path.dir = ".."}) = 1

\* C11: in a run of the asset generator, whichever of the 14 images (8
\* character sprites, 5 backgrounds, the preview) the renderer fails on: for
\* a failed image svg_to_png leaves the markup unchanged in the .svg sibling
\* of the path, returns False and the fallback is reported; for a rendered
\* image no .svg sibling is written and True is returned; every image is
\* attempted whatever happened to the ones before, and the run reaches its
\* end with the audio step and the preview step done.
C11_FallbackPerAsset == []AssetsHandled /\ <>GenerateDone

\* a finished run in which the renderer failed on a sprite, a background and
\* the preview and rendered the image after each of the first two
C11_Witness ==
  /\ GenerateDone
  /\ ~returns[1].renders /\ returns[2].renders
  /\ ~returns[Len(CharacterJobs) + 1].renders
  /\ returns[Len(CharacterJobs) + 2].renders
  /\ ~returns[ImagesBeforeAudio + 1].renders
  /\ [dir |-> "..", stem |-> <<"p","r","e","v","i","e","w">>, suffix |-> ".svg"] \in DOMAIN imageFiles

----------------------------------------------------------------------------
(* Properties of create_character_svg. *)

IsShape(piece) == piece.shape.tag # ""

\* the shapes of a character's markup in the order of the text: left eye,
\* right eye, mouth
ShapesOf(svg) == SelectSeq(svg, IsShape)

\* shape is a path whose data has a command op
HasCmd(shape, op) ==
  /\ shape.tag = "path"
  /\ \E k \in 1..Len(shape.cmds) : shape.cmds[k].op = op

KnownExpressions == {<<"n","e","u","t","r","a","l">>, <<"h","a","p","p","y">>, <<"s","a","d">>, <<"s","u","r","p","r","i","s","e","d">>}

NeutralShapes ==
  <<Shp(Ellipse(170, 280, 15, 12)), Shp(Ellipse(230, 280, 15, 12)),
    Shp(PathD(<<Cmd("M", <<175, 340>>), Cmd("L", <<225, 340>>)>>))>>

\* C12: for every name, color and accent color, create_character_svg with
\* an expression outside neutral, happy, sad, surprised returns exactly the
\* markup of "neutral" with the same other arguments; the markup of "happy"
\* differs from that of "neutral" in the left eye, the right eye and the
\* mouth: paths with a curve (Q) where "neutral" has two ellipses and a
\* straight line (L).
C12_UnknownExpressionIsNeutral ==
  svgCall.status = "returned" =>
    LET neutral == create_character_svg(svgCall.name, svgCall.color,
                                        <<"n","e","u","t","r","a","l">>, svgCall.accent_color)
        shapes  == ShapesOf(svgCall.svg)
    IN  /\ Len(shapes) = 3
        /\ ShapesOf(neutral) = NeutralShapes
        /\ svgCall.expression = <<"n","e","u","t","r","a","l">> => svgCall.svg = neutral
        /\ svgCall.expression \notin KnownExpressions =>
             /\ svgCall.svg = neutral
             /\ shapes = NeutralShapes
        /\ svgCall.expression = <<"h","a","p","p","y">> =>
             /\ svgCall.svg # neutral
             /\ \A k \in 1..3 :
                  /\ shapes[k] # NeutralShapes[k]
                  /\ HasCmd(shapes[k].shape, "Q")
                  /\ ~HasCmd(shapes[k].shape, "L")
             /\ NeutralShapes[1].shape.tag = "ellipse"
             /\ NeutralShapes[2].shape.tag = "ellipse"
             /\ HasCmd(NeutralShapes[3].shape, "L")
             /\ ~HasCmd(NeutralShapes[3].shape, "Q")

\* a call for "sam" with glasses and an expression the tables do not have
C12_Witness ==
  /\ svgCall.status = "returned"
  /\ svgCall.name = <<"s","a","m">>
  /\ svgCall.accent_color = "#333333"
  /\ svgCall.expression = <<"a","n","g","r","y">>
  /\ ShapesOf(svgCall.svg) = NeutralShapes

\* the opening text of the glasses and of the tie, whatever their color
GlassesOpening == Head(Glasses(""))
TieOpening     == Head(Tie(""))

HasGlasses(svg) == \E i \in 1..Len(svg) : svg[i] = GlassesOpening
HasTie(svg)     == \E i \in 1..Len(svg) : svg[i] = TieOpening

\* part occurs in svg as a stretch of consecutive pieces
Occurs(part, svg) ==
  \E i \in 0..(Len(svg) - Len(part)) : SubSeq(svg, i + 1, i + Len(part)) = part

\* C13: the accessory of the markup is selected by the name alone: glasses
\* iff the name is "sam", a tie iff the name is "professor", nothing for any
\* other name, for every accent color, none included.
C13_OverlayByNameAlone ==
  svgCall.status = "returned" =>
    /\ HasGlasses(svgCall.svg) <=> svgCall.name = <<"s","a","m">>
    /\ HasTie(svgCall.svg) <=> svgCall.name = <<"p","r","o","f","e","s","s","o","r">>

\* C13 (amended): the accessory is selected by the name and by an accent
\* color being given (not None, not empty): glasses in the accent color iff
\* the name is "sam" and an accent color is given, a tie in the accent color
\* iff the name is "professor" and an accent color is given, and nothing in
\* every other case.
C13_OverlayByNameAndAccent ==
  svgCall.status = "returned" =>
    LET given == svgCall.accent_color # PyNone /\ svgCall.accent_color # ""
    IN  /\ HasGlasses(svgCall.svg) <=> (svgCall.name = <<"s","a","m">> /\ given)
        /\ HasTie(svgCall.svg) <=> (svgCall.name = <<"p","r","o","f","e","s","s","o","r">> /\ given)
        /\ HasGlasses(svgCall.svg) => Occurs(Glasses(svgCall.accent_color), svgCall.svg)
        /\ HasTie(svgCall.svg) => Occurs(Tie(svgCall.accent_color), svgCall.svg)
        /\ Len(svgCall.svg) =
             Len(create_character_svg(<<"a","l","e","x">>, svgCall.color, svgCall.expression, PyNone))
             + (IF HasGlasses(svgCall.svg) THEN Len(Glasses("")) ELSE 0)
             + (IF HasTie(svgCall.svg) THEN Len(Tie("")) ELSE 0)

\* "sam" drawn without an accent color: no glasses
C13_Witness ==
  /\ svgCall.status = "returned"
  /\ svgCall.name = <<"s","a","m">>
  /\ svgCall.accent_color = PyNone
  /\ ~HasGlasses(svgCall.svg)

----------------------------------------------------------------------------
(* Properties of suggest_alternatives. *)

\* the token before the first hyphen of a Lucide name
TokenOf(lucide_name) ==
  IF \E i \in 1..Len(lucide_name) : lucide_name[i] = "-"
  THEN SubSeq(lucide_name, 1,
              (CHOOSE i \in 1..Len(lucide_name) :
                 /\ lucide_name[i] = "-"
                 /\ \A j \in 1..(i - 1) : lucide_name[j] # "-") - 1)
  ELSE lucide_name

\* position of the file of an icon name in the listing of the directory
ListingIndex(icon) == CHOOSE p \in 1..Len(lucideOrder) : lucideOrder[p] = SvgName(icon)

\* the positions of the listing that hold an SVG file whose icon name
\* contains the token
MatchingAt(token) ==
  {p \in 1..Len(lucideOrder) :
     /\ EndsWith(lucideOrder[p], DotSvg)
     /\ Contains(SubSeq(lucideOrder[p], 1, Len(lucideOrder[p]) - Len(DotSvg)), token)}

\* list is the names at the first five matching positions, in listing order
FirstFiveMatching(list, token) ==
  /\ Len(list) <= 5
  /\ Len(list) = Min(5, Cardinality(MatchingAt(token)))
  /\ \A k \in 1..Len(list) :
       /\ Contains(list[k], token)
       /\ SvgName(list[k]) \in DOMAIN lucideSrc
       /\ ListingIndex(list[k]) \in MatchingAt(token)
  /\ \A k, l \in 1..Len(list) : k < l => ListingIndex(list[k]) < ListingIndex(list[l])
  /\ \A p \in MatchingAt(token) :
       (\E k \in 1..Len(list) : p < ListingIndex(list[k]))
         => \E k \in 1..Len(list) : ListingIndex(list[k]) = p

\* C14: every missing entry passed to suggest_alternatives has a result
\* list under its legacy key: the SVG files of the Lucide directory whose
\* name contains the token before the first hyphen of the entry's Lucide
\* name, in listing order, cut to the first 5, none that comes before a
\* listed one left out.
C14_EveryMissingHasList ==
  mapperRun.status = "done" =>
    \A i \in 1..Len(mapperRun.missing) :
      LET current_name == mapperRun.missing[i][1]
          token        == TokenOf(mapperRun.missing[i][2])
      IN  /\ current_name \in Keys(mapperRun.alternatives)
          /\ FirstFiveMatching(Get(mapperRun.alternatives, current_name), token)

\* C14 (amended): a missing entry has a result list under its legacy key
\* iff at least one SVG file of the Lucide directory has a name containing
\* the token; the list then is those names in listing order, cut to the
\* first 5, none that comes before a listed one left out; the result has no
\* other keys.
C14_MatchedMissingHasList ==
  mapperRun.status = "done" =>
    /\ \A i \in 1..Len(mapperRun.missing) :
         LET current_name == mapperRun.missing[i][1]
             token        == TokenOf(mapperRun.missing[i][2])
         IN  IF MatchingAt(token) = {}
             THEN current_name \notin Keys(mapperRun.alternatives)
             ELSE /\ current_name \in Keys(mapperRun.alternatives)
                  /\ Get(mapperRun.alternatives, current_name) # <<>>
                  /\ FirstFiveMatching(Get(mapperRun.alternatives, current_name),
                                       token)
    /\ Keys(mapperRun.alternatives)
         \subseteq {mapperRun.missing[i][1] : i \in 1..Len(mapperRun.missing)}

\* a run with six matching files for one missing entry, listed in an order
\* that is not the sorted one, and no matching file for another
C14_Witness ==
  /\ mapperRun.status = "done"
  /\ Len(mapperRun.missing) = 3
  /\ Cardinality(MatchingAt(<<"f","i","l","e">>)) = 6
  /\ lucideOrder[1] = <<"p","r","o","f","i","l","e",".","s","v","g">>
  /\ Len(Get(mapperRun.alternatives, <<"f","i","l","e","-","n","e","w">>)) = 5
  /\ <<"f","i","l","e","-","o","p","e","n">> \notin Keys(mapperRun.alternatives)

----------------------------------------------------------------------------
(* Property of the total the Source-Table Generator prints. *)

\* C15: the number printed as "Total icons mapped" is the number of keys of
\* the mapping file, which is the number of assignment lines emitted.
C15_TotalIsKeyCount ==
  cppRun.status = "printed" =>
    /\ cppRun.total = Len(cppRun.mapping)
    /\ cppRun.total
         = Cardinality({i \in 1..Len(cppRun.lines) : IsAssignment(cppRun.lines[i])})

----------------------------------------------------------------------------
(* Property of the pipeline. *)

\* the manifest has the line <file>icons/lucide/<name></file> inside the
\* resource with prefix "/"
ManifestLists(name) ==
  /\ \E i \in 1..Len(qrcRun.content) :
       qrcRun.content[i]
         = <<Lit("        <file>icons/lucide/"), Nm(name), Lit("</file>")>>
  /\ \E i \in 1..Len(qrcRun.content) :
       qrcRun.content[i] = <<Lit("    <qresource prefix=\"/\">")>>

\* the source table assigns to key the path :/icons/lucide/<lucide_name>.svg
Assigns(key, lucide_name) ==
  \E i \in 1..Len(cppRun.lines) :
    cppRun.lines[i]
      = <<Lit("  m_iconFilePaths[\""), Nm(key), Lit("\"] = \":/icons/lucide/"),
          Nm(lucide_name), Lit(".svg\";")>>

====
